---------------------------- MODULE Spec2Model ----------------------------
(***************************************************************************)
(* A model of recc: the command parser (parsedcommandfactory.cpp), the     *)
(* path helpers (fileutils.cpp), the Action builder (actionbuilder.cpp),   *)
(* the per-invocation orchestrator (executioncontext.cpp) and the CLI      *)
(* entry point (bin/recc.m.cpp).                                           *)
(*                                                                         *)
(* std::string values are sequences of one-character strings, so that      *)
(* front(), substr(), rfind() and the pointer walks of fileutils.cpp are    *)
(* computed as the code computes them.                                     *)
(***************************************************************************)
EXTENDS Integers, Sequences, FiniteSets, TLC

(***************************************************************************)
(* Bounds of the model.                                                    *)
(***************************************************************************)
\* longest argument list (after argv[0]) given to the parser specification
MaxArgs == 3

(***************************************************************************)
(* std::string helpers.                                                    *)
(***************************************************************************)
Min(a, b) == IF a < b THEN a ELSE b

Max(a, b) == IF a > b THEN a ELSE b

\* std::string::substr(pos, n) with a 0-based pos, clipped at the end.
Substr(s, pos, n) == SubSeq(s, pos + 1, Min(pos + n, Len(s)))

\* std::string::substr(pos): the rest of the string.
SubstrFrom(s, pos) == SubSeq(s, pos + 1, Len(s))

\* 1-based index of the first occurrence of character c at or after from; 0 if none.
RECURSIVE FindFrom(_, _, _)
FindFrom(s, c, from) ==
    IF from > Len(s) THEN 0
    ELSE IF s[from] = c THEN from
    ELSE FindFrom(s, c, from + 1)

\* 1-based index of the last occurrence of c at or before upto; 0 if none.
RECURSIVE RFindFrom(_, _, _)
RFindFrom(s, c, upto) ==
    IF upto < 1 THEN 0
    ELSE IF s[upto] = c THEN upto
    ELSE RFindFrom(s, c, upto - 1)

HasSlash(s) == FindFrom(s, "/", 1) # 0

(***************************************************************************)
(* Literals used by the model.                                             *)
(***************************************************************************)
S_gcc == <<"g", "c", "c">>

S_dotgcc == <<".", "/", "g", "c", "c">>

S_ls == <<"l", "s">>

S_binls == <<"/", "b", "/", "l", "s">>

T_c == <<"-", "c">>

T_o == <<"-", "o">>

T_E == <<"-", "E">>

T_W == <<"-", "W">>

T_dash == <<"-">>

T_T == <<"-", "T">>

T_at == <<"@", "f">>

T_src == <<"a", ".", "c">>

T_obj == <<"a", ".", "o">>

T_upobj == <<".", ".", "/", ".", ".", "/", "a", ".", "o">>

T_absobj == <<"/", "t", "/", "a", ".", "o">>

T_help == <<"-", "-", "h", "e", "l", "p">>

\* getCurrentWorkingDirectory() of the modelled invocations
Cwd == <<"/", "w">>

(***************************************************************************)
(* fileutils.cpp                                                           *)
(***************************************************************************)
isAbsolutePath(path) == path # <<>> /\ path[1] = "/"

\* A variant that appends the slash whatever the prefix ends in.
hasPathPrefix_alwaysSlash(path, prefix) ==
    IF prefix = <<>> THEN FALSE
    ELSE IF path = prefix THEN TRUE
    ELSE Substr(path, 0, Len(prefix) + 1) = Append(prefix, "/")

hasPathPrefix(path, prefix) ==
    IF prefix = <<>> THEN FALSE
    ELSE IF path = prefix THEN TRUE
    ELSE LET tmpPrefix == IF prefix[Len(prefix)] # "/"
                          THEN Append(prefix, "/") ELSE prefix
         IN  Substr(path, 0, Len(tmpPrefix)) = tmpPrefix

\* The loop of parentDirectoryLevels: pos is path_p (1-based), the result is
\* -lowestLevel.
RECURSIVE parentDirectoryLevelsFrom(_, _, _, _)
parentDirectoryLevelsFrom(path, pos, currentLevel, lowestLevel) ==
    LET slash == FindFrom(path, "/", pos) IN
    IF pos > Len(path) THEN 0 - lowestLevel
    ELSE IF slash = 0
    THEN IF SubSeq(path, pos, Len(path)) = <<".", ".">>
         THEN 0 - Min(lowestLevel, currentLevel - 1)
         ELSE 0 - lowestLevel
    ELSE LET segment == SubSeq(path, pos, slash - 1) IN
         IF segment = <<>> \/ segment = <<".">>
         THEN parentDirectoryLevelsFrom(path, slash + 1, currentLevel, lowestLevel)
         ELSE IF segment = <<".", ".">>
         THEN parentDirectoryLevelsFrom(path, slash + 1, currentLevel - 1,
                                        Min(lowestLevel, currentLevel - 1))
         ELSE parentDirectoryLevelsFrom(path, slash + 1, currentLevel + 1, lowestLevel)

parentDirectoryLevels(path) == parentDirectoryLevelsFrom(path, 1, 0, 0)

\* The while loop of lastNSegments. start is the 0-based offset of
\* substringStart in the path.
RECURSIVE lastNSegmentsLoop(_, _, _, _, _)
lastNSegmentsLoop(path, n, start, substringLength, slashesSeen) ==
    IF start = 0
    THEN IF slashesSeen = 0 /\ n = 1
         THEN [tag |-> "ok", val |-> path]
         ELSE [tag |-> "logic_error", val |-> <<>>]
    ELSE IF path[start] = "/"          \* *(substringStart - 1)
    THEN IF slashesSeen + 1 = n
         THEN [tag |-> "ok", val |-> Substr(path, start, substringLength)]
         ELSE lastNSegmentsLoop(path, n, start - 1, substringLength + 1,
                                slashesSeen + 1)
    ELSE lastNSegmentsLoop(path, n, start - 1, substringLength + 1, slashesSeen)

\* An empty path makes the code read path_p[-1]: the result is undefined.
lastNSegments(path, n) ==
    IF n = 0 THEN [tag |-> "ok", val |-> <<>>]
    ELSE IF path = <<>> THEN [tag |-> "undefined", val |-> <<>>]
    ELSE lastNSegmentsLoop(path, n, Len(path) - 1,
                           IF path[Len(path)] = "/" THEN 0 ELSE 1, 0)


(***************************************************************************)
(* Configuration read by the path helpers (env.h).  The modelled           *)
(* invocations run with the defaults: no prefix map, path rewriting on,    *)
(* project root = working directory.                                       *)
(***************************************************************************)
RECC_PREFIX_REPLACEMENT == <<>>

RECC_NO_PATH_REWRITE == FALSE

RECC_PROJECT_ROOT == Cwd

(***************************************************************************)
(* buildboxcommon::FileUtils (library): lexical normalisation and          *)
(* relative rewriting.                                                     *)
(***************************************************************************)
\* The segments of a path, split at '/'.
RECURSIVE Segments(_, _)
Segments(path, pos) ==
    LET slash == FindFrom(path, "/", pos) IN
    IF pos > Len(path) THEN <<>>
    ELSE IF slash = 0 THEN <<SubSeq(path, pos, Len(path))>>
    ELSE <<SubSeq(path, pos, slash - 1)>> \o Segments(path, slash + 1)

RECURSIVE NormalizeSegments(_, _, _)
NormalizeSegments(segs, kept, global) ==
    IF segs = <<>> THEN kept
    ELSE LET seg == Head(segs) IN
         IF seg = <<".", ".">>
         THEN IF kept # <<>> /\ kept[Len(kept)] # <<".", ".">>
              THEN NormalizeSegments(Tail(segs), SubSeq(kept, 1, Len(kept) - 1), global)
              ELSE IF global
              THEN NormalizeSegments(Tail(segs), kept, global)
              ELSE NormalizeSegments(Tail(segs), Append(kept, seg), global)
         ELSE IF seg = <<".">> \/ seg = <<>>
         THEN NormalizeSegments(Tail(segs), kept, global)
         ELSE NormalizeSegments(Tail(segs), Append(kept, seg), global)

RECURSIVE JoinSegments(_)
JoinSegments(segs) ==
    IF segs = <<>> THEN <<>>
    ELSE IF Len(segs) = 1 THEN segs[1]
    ELSE segs[1] \o <<"/">> \o JoinSegments(Tail(segs))

normalizePath(path) ==
    LET global == isAbsolutePath(path)
        kept   == NormalizeSegments(Segments(path, 1), <<>>, global)
    IN  IF kept = <<>> THEN (IF global THEN <<"/">> ELSE <<".">>)
        ELSE (IF global THEN <<"/">> ELSE <<>>) \o JoinSegments(kept)

\* makePathRelative for a path at or below the base directory (the only case
\* that arises while the project root is the working directory).
makePathRelative(path, base) ==
    IF path = base THEN <<".">>
    ELSE IF hasPathPrefix(path, base)
    THEN SubstrFrom(path, Len(IF base[Len(base)] = "/" THEN base ELSE Append(base, "/")))
    ELSE path

(***************************************************************************)
(* fileutils.cpp, continued                                                *)
(***************************************************************************)
RECURSIVE resolvePathFromPrefixMapFrom(_, _)
resolvePathFromPrefixMapFrom(path, pairs) ==
    IF pairs = <<>> THEN path
    ELSE IF hasPathPrefix(path, Head(pairs)[1])
    THEN normalizePath(Head(pairs)[2] \o <<"/">> \o SubstrFrom(path, Len(Head(pairs)[1])))
    ELSE resolvePathFromPrefixMapFrom(path, Tail(pairs))

resolvePathFromPrefixMap(path) ==
    resolvePathFromPrefixMapFrom(path, RECC_PREFIX_REPLACEMENT)

rewritePathToRelative(path, workingDirectory) ==
    IF ~RECC_NO_PATH_REWRITE /\ hasPathPrefix(path, RECC_PROJECT_ROOT)
    THEN makePathRelative(path, workingDirectory)
    ELSE path

modifyPathForRemote(path, workingDirectory, normalize) ==
    LET replacedPath == rewritePathToRelative(resolvePathFromPrefixMap(path),
                                              workingDirectory)
    IN  IF normalize /\ ~RECC_NO_PATH_REWRITE
        THEN normalizePath(replacedPath) ELSE replacedPath

(***************************************************************************)
(* parsedcommand.h / parsedcommand.cpp                                     *)
(***************************************************************************)
\* compilerdefaults.h (the compiler families), abridged to the names used here.
SupportedCompilers_Gcc == {S_gcc, <<"g", "+", "+">>, <<"c", "l", "a", "n", "g">>}

SupportedCompilers_CCompilers == {<<"c", "c">>}

SupportedCompilers_GccDefaultDeps == <<<<"-", "M">>>>

\* A default-constructed ParsedCommand.  `undefined` records that the parser
\* called front() or pop_front() on an empty d_originalCommand.
EmptyParsedCommand ==
    [d_compiler                   |-> <<>>,
     d_command                    |-> <<>>,
     d_dependenciesCommand        |-> <<>>,
     d_defaultDepsCommand         |-> <<>>,
     d_originalCommand            |-> <<>>,
     d_inputFiles                 |-> <<>>,
     d_commandProducts            |-> {},
     d_commandDepsProducts        |-> {},
     d_compilerCommand            |-> FALSE,
     d_linkerCommand              |-> FALSE,
     d_isSunStudio                |-> FALSE,
     d_containsUnsupportedOptions |-> FALSE,
     d_bstatic                    |-> FALSE,
     d_bstaticStack               |-> <<>>,
     d_libraries                  |-> {},
     d_staticLibraries            |-> {},
     undefined                    |-> FALSE]

is_version_character(ch) ==
    ch \in {"0", "1", "2", "3", "4", "5", "6", "7", "8", "9", ".", "-"}

RECURSIVE StripVersion(_, _)
StripVersion(basename, length) ==
    IF length > 0 /\ is_version_character(basename[length])
    THEN StripVersion(basename, length - 1)
    ELSE length

\* ParsedCommand::commandBasename.  For the C-compiler indirections (cc, ...)
\* the branch modelled is the one where the executable is not a symlink.
commandBasename(path) ==
    LET lastSlash == RFindFrom(path, "/", Len(path))
        basename  == IF lastSlash = 0 THEN path ELSE SubstrFrom(path, lastSlash)
        length    == Len(basename)
        rSuffix   == <<"_", "r">>
        length2   == IF length > 2 /\ SubstrFrom(basename, length - 2) = rSuffix
                     THEN length - 2
                     ELSE IF length > 3 /\ Substr(basename, length - 3, 2) = rSuffix
                     THEN length - 3
                     ELSE length
    IN  IF basename \in SupportedCompilers_CCompilers THEN basename
        ELSE Substr(basename, 0, StripVersion(basename, length2))

\* ParsedCommand::ParsedCommand(command, workingDirectory)
NewParsedCommand(command, workingDirectory) ==
    IF command = <<>> \/ command[1] = <<>> THEN EmptyParsedCommand
    ELSE LET compiler == command[1]
             name     == commandBasename(compiler)
         IN  [EmptyParsedCommand EXCEPT
                !.d_compiler = name,
                !.d_defaultDepsCommand =
                    IF name \in SupportedCompilers_Gcc
                    THEN SupportedCompilers_GccDefaultDeps ELSE <<>>,
                !.d_command = <<modifyPathForRemote(compiler, workingDirectory, FALSE)>>,
                !.d_dependenciesCommand = <<compiler>>,
                !.d_originalCommand = Tail(command)]

(***************************************************************************)
(* parsedcommandfactory.cpp                                                *)
(***************************************************************************)
\* GccRules, abridged to the options of the modelled token alphabet, in the
\* iteration order of CompilerParseRulesMap (std::greater<std::string>).
GccRules ==
    << [key |-> T_o, rule |-> "parseOptionRedirectsOutput"],
       [key |-> T_c, rule |-> "parseIsCompileOption"],
       [key |-> T_E, rule |-> "parseOptionIsUnsupported"] >>

\* LdRules, abridged likewise.
LdRules ==
    << [key |-> T_o, rule |-> "parseOptionRedirectsOutput"],
       [key |-> T_T, rule |-> "parseOptionIsUnsupported"] >>

\* The keys of LdRules that read or write d_bstatic.
K_l == <<"-", "l">>

K_dy == <<"-", "d", "y">>

K_dn == <<"-", "d", "n">>

K_Bstatic == <<"-", "B", "s", "t", "a", "t", "i", "c">>

K_Bdynamic == <<"-", "B", "d", "y", "n", "a", "m", "i", "c">>

K_push_state == <<"-", "-", "p", "u", "s", "h", "-", "s", "t", "a", "t", "e">>

K_pop_state == <<"-", "-", "p", "o", "p", "-", "s", "t", "a", "t", "e">>

\* LdRules, abridged to these keys, in the iteration order of the map.
LdStateRules ==
    << [key |-> K_l, rule |-> "parseLdLibrary"],
       [key |-> K_dy, rule |-> "parseLdOptionDynamic"],
       [key |-> K_dn, rule |-> "parseLdOptionStatic"],
       [key |-> K_Bstatic, rule |-> "parseLdOptionStatic"],
       [key |-> K_Bdynamic, rule |-> "parseLdOptionDynamic"],
       [key |-> K_push_state, rule |-> "parseLdOptionState"],
       [key |-> K_pop_state, rule |-> "parseLdOptionState"] >>

NoRule == [key |-> <<>>, rule |-> "nullptr"]

\* front() or pop_front() on an empty deque.
UndefinedParse(c) == [c EXCEPT !.undefined = TRUE, !.d_originalCommand = <<>>]

isspace(ch) == ch \in {" ", "\t", "\n"}

RECURSIVE EraseSpaces(_)
EraseSpaces(s) ==
    IF s = <<>> THEN <<>>
    ELSE IF isspace(Head(s)) THEN EraseSpaces(Tail(s))
    ELSE <<Head(s)>> \o EraseSpaces(Tail(s))

RECURSIVE FindRule(_, _)
FindRule(key, options) ==
    IF options = <<>> THEN NoRule
    ELSE IF Head(options).key = key THEN Head(options)
    ELSE FindRule(key, Tail(options))

\* The substring search of matchCompilerOptions, in map order.
RECURSIVE FindPrefixRule(_, _)
FindPrefixRule(option, options) ==
    IF options = <<>> THEN NoRule
    ELSE IF Substr(option, 0, Len(Head(options).key)) = Head(options).key
    THEN Head(options)
    ELSE FindPrefixRule(option, Tail(options))

matchCompilerOptions(option, options) ==
    IF option # <<>> /\ option[1] \in {"-", "+"}
    THEN LET eq         == FindFrom(option, "=", 1)
             untilEq    == IF eq = 0 THEN option ELSE Substr(option, 0, eq - 1)
             tempOption == EraseSpaces(untilEq)
             exact      == FindRule(tempOption, options)
         IN  IF exact # NoRule THEN exact ELSE FindPrefixRule(option, options)
    ELSE NoRule

appendAndRemoveOption(c, workingDirectory, isPath, toDeps, isOutput, depsOutput) ==
    IF c.d_originalCommand = <<>> THEN UndefinedParse(c)
    ELSE LET option       == Head(c.d_originalCommand)
             replacedPath == modifyPathForRemote(option, workingDirectory, TRUE)
         IN  IF isPath
             THEN [c EXCEPT
                     !.d_dependenciesCommand =
                         IF toDeps THEN Append(@, option) ELSE @,
                     !.d_command = Append(@, replacedPath),
                     !.d_commandProducts =
                         IF isOutput /\ ~depsOutput THEN @ \cup {replacedPath} ELSE @,
                     !.d_commandDepsProducts =
                         IF isOutput /\ depsOutput THEN @ \cup {replacedPath} ELSE @,
                     !.d_originalCommand = Tail(@)]
             ELSE [c EXCEPT
                     !.d_command = Append(@, option),
                     !.d_dependenciesCommand =
                         IF toDeps THEN Append(@, option) ELSE @,
                     !.d_originalCommand = Tail(@)]

parseGccOption(c, workingDirectory, option, toDeps, isOutput, depsOutput) ==
    LET val == Head(c.d_originalCommand) IN
    IF val = option
    THEN appendAndRemoveOption(
             appendAndRemoveOption(c, workingDirectory, FALSE, toDeps, FALSE, FALSE),
             workingDirectory, TRUE, toDeps, isOutput, depsOutput)
    ELSE LET equalPos       == FindFrom(val, "=", 1)
             optionPath     == IF equalPos # 0 THEN SubstrFrom(val, equalPos)
                               ELSE SubstrFrom(val, Len(option))
             modifiedOption == IF equalPos # 0 THEN Append(option, "=") ELSE option
             replacedPath   == modifyPathForRemote(optionPath, workingDirectory, TRUE)
         IN  [c EXCEPT
                !.d_command = Append(@, modifiedOption \o replacedPath),
                !.d_commandProducts =
                    IF isOutput /\ ~depsOutput THEN @ \cup {replacedPath} ELSE @,
                !.d_commandDepsProducts =
                    IF isOutput /\ depsOutput THEN @ \cup {replacedPath} ELSE @,
                !.d_dependenciesCommand =
                    IF ~isOutput /\ toDeps THEN Append(@, modifiedOption \o optionPath)
                    ELSE @,
                !.d_originalCommand = Tail(@)]

parseIsCompileOption(c, workingDirectory) ==
    appendAndRemoveOption([c EXCEPT !.d_compilerCommand = TRUE],
                          workingDirectory, FALSE, TRUE, FALSE, FALSE)

parseOptionRedirectsOutput(c, workingDirectory, option) ==
    parseGccOption(c, workingDirectory, option, FALSE, TRUE, FALSE)

\* Appends the rest of the command and clears d_originalCommand, so that
\* parsing stops.
parseOptionIsUnsupported(c) ==
    [c EXCEPT !.d_containsUnsupportedOptions = TRUE,
              !.d_dependenciesCommand = @ \o c.d_originalCommand,
              !.d_command = @ \o c.d_originalCommand,
              !.d_originalCommand = <<>>]

\* The library is recorded under the linking mode in force.
addLdLibrary(c, library, option) ==
    IF library = <<>> THEN parseOptionIsUnsupported(c)
    ELSE IF c.d_bstatic
    THEN [c EXCEPT !.d_staticLibraries = @ \cup {library}]
    ELSE [c EXCEPT !.d_libraries = @ \cup {library}]

\* With "-l" as the last token the library name is read from the front of
\* an empty deque.
parseLdLibrary(c, workingDirectory, option) ==
    LET val == Head(c.d_originalCommand) IN
    IF val = option
    THEN LET c1 == appendAndRemoveOption(c, workingDirectory, FALSE, FALSE, FALSE, FALSE)
         IN  IF c1.d_originalCommand = <<>> THEN UndefinedParse(c1)
             ELSE addLdLibrary(
                      appendAndRemoveOption(c1, workingDirectory, FALSE, FALSE,
                                            FALSE, FALSE),
                      Head(c1.d_originalCommand), option)
    ELSE LET equalPos == FindFrom(val, "=", 1)
             library  == IF equalPos # 0 THEN SubstrFrom(val, equalPos)
                         ELSE SubstrFrom(val, Len(option))
         IN  addLdLibrary(
                 appendAndRemoveOption(c, workingDirectory, FALSE, FALSE, FALSE, FALSE),
                 library, option)

parseLdOptionDynamic(c, workingDirectory) ==
    appendAndRemoveOption([c EXCEPT !.d_bstatic = FALSE],
                          workingDirectory, FALSE, TRUE, FALSE, FALSE)

parseLdOptionStatic(c, workingDirectory) ==
    appendAndRemoveOption([c EXCEPT !.d_bstatic = TRUE],
                          workingDirectory, FALSE, TRUE, FALSE, FALSE)

\* A variant that restores the oldest saved value.
parseLdOptionState_fifo(c, workingDirectory, option) ==
    IF option = K_push_state
    THEN appendAndRemoveOption(
             [c EXCEPT !.d_bstaticStack = Append(@, c.d_bstatic)],
             workingDirectory, FALSE, TRUE, FALSE, FALSE)
    ELSE IF option = K_pop_state /\ c.d_bstaticStack # <<>>
    THEN appendAndRemoveOption(
             [c EXCEPT !.d_bstatic = Head(c.d_bstaticStack),
                       !.d_bstaticStack = Tail(@)],
             workingDirectory, FALSE, TRUE, FALSE, FALSE)
    ELSE parseOptionIsUnsupported(c)

parseLdOptionState(c, workingDirectory, option) ==
    IF option = K_push_state
    THEN appendAndRemoveOption(
             [c EXCEPT !.d_bstaticStack = Append(@, c.d_bstatic)],
             workingDirectory, FALSE, TRUE, FALSE, FALSE)
    ELSE IF option = K_pop_state /\ c.d_bstaticStack # <<>>
    THEN appendAndRemoveOption(
             [c EXCEPT !.d_bstatic = c.d_bstaticStack[Len(c.d_bstaticStack)],
                       !.d_bstaticStack = SubSeq(@, 1, Len(@) - 1)],
             workingDirectory, FALSE, TRUE, FALSE, FALSE)
    ELSE parseOptionIsUnsupported(c)

ApplyRule(c, workingDirectory, match) ==
    CASE match.rule = "parseIsCompileOption" ->
             parseIsCompileOption(c, workingDirectory)
      [] match.rule = "parseOptionRedirectsOutput" ->
             parseOptionRedirectsOutput(c, workingDirectory, match.key)
      [] match.rule = "parseOptionIsUnsupported" ->
             parseOptionIsUnsupported(c)
      [] match.rule = "parseLdLibrary" ->
             parseLdLibrary(c, workingDirectory, match.key)
      [] match.rule = "parseLdOptionDynamic" ->
             parseLdOptionDynamic(c, workingDirectory)
      [] match.rule = "parseLdOptionStatic" ->
             parseLdOptionStatic(c, workingDirectory)
      [] match.rule = "parseLdOptionState" ->
             parseLdOptionState(c, workingDirectory, match.key)

\* A variant of the "-" branch that forgets to flag the command.
parseStandardInput_noflag(c) ==
    [c EXCEPT !.d_originalCommand = Tail(@)]

\* The branch of parseCommand for a token that is exactly "-".
parseStandardInput(c) ==
    [c EXCEPT !.d_containsUnsupportedOptions = TRUE,
              !.d_originalCommand = Tail(@)]

\* The branch of parseCommand for a token that starts with '@'.
parseResponseFile(c) ==
    [c EXCEPT !.d_containsUnsupportedOptions = TRUE,
              !.d_originalCommand = Tail(@)]

\* The branch of parseCommand for a positional argument.
parseInputFile(c, workingDirectory) ==
    LET currToken == Head(c.d_originalCommand) IN
    [c EXCEPT !.d_command = Append(@, modifyPathForRemote(currToken, workingDirectory, TRUE)),
              !.d_dependenciesCommand = Append(@, currToken),
              !.d_inputFiles = Append(@, currToken),
              !.d_originalCommand = Tail(@)]

\* One iteration of the while loop of ParsedCommandFactory::parseCommand.
parseCommandStep(c, parseRules, workingDirectory) ==
    LET currToken      == Head(c.d_originalCommand)
        optionModifier == matchCompilerOptions(currToken, parseRules)
    IN  IF optionModifier # NoRule
        THEN ApplyRule(c, workingDirectory, optionModifier)
        ELSE IF currToken = T_dash
        THEN parseStandardInput(c)
        ELSE IF currToken # <<>> /\ currToken[1] = "@"
        THEN parseResponseFile(c)
        ELSE IF currToken # <<>> /\
                (currToken[1] = "-" \/ (c.d_isSunStudio /\ currToken[1] = "+"))
        THEN appendAndRemoveOption(c, workingDirectory, FALSE, TRUE, FALSE, FALSE)
        ELSE parseInputFile(c, workingDirectory)

RECURSIVE parseCommand(_, _, _)
parseCommand(c, parseRules, workingDirectory) ==
    IF c.d_originalCommand = <<>> THEN c
    ELSE parseCommand(parseCommandStep(c, parseRules, workingDirectory),
                      parseRules, workingDirectory)

\* getParsedCommandMap(): is the compiler one whose options recc parses?
compilerFound(c) == c.d_compiler \in SupportedCompilers_Gcc

\* A variant of the fix-up that marks every supported command with input
\* files a link command, compile commands included.
finishParsedCommand_alwaysLink(c, command) ==
    IF c.d_containsUnsupportedOptions \/ c.d_inputFiles = <<>>
    THEN [c EXCEPT !.d_compilerCommand = FALSE]
    ELSE [c EXCEPT
            !.d_linkerCommand = TRUE,
            !.d_dependenciesCommand = @ \o c.d_defaultDepsCommand,
            !.d_originalCommand = command \o @]

\* A variant of the fix-up that never marks a command a link command.
finishParsedCommand_neverLink(c, command) ==
    IF c.d_containsUnsupportedOptions \/ c.d_inputFiles = <<>>
    THEN [c EXCEPT !.d_compilerCommand = FALSE]
    ELSE [c EXCEPT
            !.d_dependenciesCommand = @ \o c.d_defaultDepsCommand,
            !.d_originalCommand = command \o @]

\* createParsedCommand after parseCommand has returned.
finishParsedCommand(c, command) ==
    IF c.d_containsUnsupportedOptions \/ c.d_inputFiles = <<>>
    THEN [c EXCEPT !.d_compilerCommand = FALSE]
    ELSE [c EXCEPT
            !.d_linkerCommand = IF ~c.d_compilerCommand THEN TRUE ELSE @,
            !.d_dependenciesCommand = @ \o c.d_defaultDepsCommand,
            !.d_originalCommand = command \o @]

createParsedCommand(command, workingDirectory) ==
    IF command = <<>> THEN EmptyParsedCommand
    ELSE LET parsedCommand == NewParsedCommand(command, workingDirectory) IN
         IF ~compilerFound(parsedCommand)
         THEN [parsedCommand EXCEPT !.d_containsUnsupportedOptions = TRUE]
         ELSE finishParsedCommand(parseCommand(parsedCommand, GccRules, workingDirectory),
                                  command)

\* createParsedLinkerCommand after parseCommand has returned.
finishParsedLinkerCommand(c, command) ==
    IF c.d_containsUnsupportedOptions \/ c.d_compilerCommand
    THEN c
    ELSE [c EXCEPT !.d_linkerCommand = TRUE,
                   !.d_originalCommand = command \o @]

createParsedLinkerCommand(command, workingDirectory) ==
    finishParsedLinkerCommand(
        parseCommand(NewParsedCommand(command, workingDirectory), LdRules,
                     workingDirectory),
        command)

(***************************************************************************)
(* State                                                                   *)
(***************************************************************************)
\* argv      : the command recc is asked to run (argv + 1 of main)
\* cmd       : the ParsedCommand under construction / handed to the caller
\* parsePc   : position inside ParsedCommandFactory::createParsedCommand
\* The remaining variables are the locals of main and of
\* ExecutionContext::executeConfigured, and the record of what the
\* collaborators (CAS, ActionCache, Execution service, subprocess) were asked.
VARIABLES argv, cmd, parsePc,
          env, pc, actionPtr, buildError, products, blobs, digest_to_filepaths,
          local_runner, lookup, action_in_cache, result, actionResult,
          calls, casUploads, uploadStatus, acUpdated, thrown, retval, exitCode

parseVars == <<argv, cmd, parsePc>>

execVars == <<env, pc, actionPtr, buildError, products, blobs, digest_to_filepaths,
              local_runner, lookup, action_in_cache, result, actionResult,
              calls, casUploads, uploadStatus, acUpdated, thrown, retval, exitCode>>

\* The bulk-scanner dependency cache of clangscandeps.cpp, shared by the recc
\* processes of one build directory.
\* dirs        : the directories <depsdir> and <depsdir>.tmp on disk
\* lockName    : the inode the name <depsdir>.lock refers to (0: no such file)
\* lockHolder  : per inode, the process holding the lockf lock (0: free)
\* inodes      : number of lock-file inodes created so far
\* dpc         : per process, its position in get_dependencies_directory
\* lockfd      : per process, the inode its lockfd is open on (0: not open)
\* rules, rulestart, targets : per process, the locals of split_scan_deps_rules
\* scanKinds   : per process, the rules the bulk scanner printed for it
\* scans       : how many times the bulk scanner was run
\* failedProc  : the process whose bulk scanner run failed (0: none)
VARIABLES dirs, lockName, lockHolder, inodes, dpc, lockfd, rules, rulestart,
          targets, scanKinds, scans, failedProc

depsVars == <<dirs, lockName, lockHolder, inodes, dpc, lockfd, rules, rulestart,
              targets, scanKinds, scans, failedProc>>

\* Deps::get_file_info for one target: the lookup in the dependency cache and
\* the per-invocation scan.
\* depFiles    : the dependency files on disk (mtime, or absent)
\* target      : the object file asked for
\* scanOutput  : what the dependencies command prints
\* fileInfo    : the CommandFileInfo under construction and how it was filled
\* depsTimestamp : the mtime of the dependency directory
VARIABLES depFiles, target, scanOutput, fileInfo, depsTimestamp

infoVars == <<depFiles, target, scanOutput, fileInfo, depsTimestamp>>

\* Deps::dependencies_from_make_rules applied to a rule and to the same rule
\* reformatted.
VARIABLES makeDeps, makeSeps, makeResult

makeVars == <<makeDeps, makeSeps, makeResult>>

\* The temporary files .recc-stdout-<random> and .recc-stderr-<random> that
\* are in the working directory.
VARIABLE tempFiles

\* The path helpers of fileutils.cpp applied to one input.
\* argPath, argPrefix, argN : the arguments
\* pathResult               : what the helper returned or threw
VARIABLES argPath, argPrefix, argN, pathResult

pathVars == <<argPath, argPrefix, argN, pathResult>>

\* ParseRuleHelper::matchCompilerOptions applied to one token and one table.
\* matchRules  : the keys of the CompilerParseRulesMap
\* matchToken  : the token
\* matchResult : the pair returned
VARIABLES matchRules, matchToken, matchResult

matchVars == <<matchRules, matchToken, matchResult>>

\* ParsedCommandFactory::parseCommand on a linker command.
\* ldCmd : the ParsedCommand being filled
\* ldLog : for every iteration of the loop, the key of the rule applied and
\*         d_bstatic before and after it
VARIABLES ldCmd, ldLog

ldVars == <<ldCmd, ldLog>>

\* LinkDeps::get_file_info from the loop that gathers the indirect
\* dependencies on.
\* neededLibraries          : for every shared library on disk, what its
\*                            DT_NEEDED entries resolve to in rpathDirs
\* sharedLibraryQueue       : the queue of libraries to inspect
\* processedSharedLibraries : the libraries inspected
\* linkDependencies         : the indirect dependencies added to the result
\* inspections              : how often each library was read for its DT_NEEDED
\* linkPc                   : "idle", "draining", "returned" or "thrown"
VARIABLES neededLibraries, sharedLibraryQueue, processedSharedLibraries,
          linkDependencies, inspections, linkPc

linkVars == <<neededLibraries, sharedLibraryQueue, processedSharedLibraries,
              linkDependencies, inspections, linkPc>>

\* ThreadUtils::parallelizeContainerOperations.
\* parCall       : the size of the container and RECC_MAX_THREADS
\* parMain       : the calling thread: where it is, numThreads,
\*                 numItemsPerPartition, partition, start, end and the number
\*                 of threads joined
\* threadObjects : the threads started, each with its range and whether
\*                 doWorkInRange has returned in it
\* handled       : how often each element was passed to doWorkInRange
VARIABLES parCall, parMain, threadObjects, handled

parVars == <<parCall, parMain, threadObjects, handled>>

\* ActionBuilder::buildMerkleTree with the work function running in several
\* threads.
\* dependency_paths     : the (local path, remote path) pairs
\* fileDigests          : the digest of the content of every local file
\* nestedDirectory      : the tree: the files by path and the directories
\* digestToFilepaths    : the PathMap, digest_to_filepaths
\* ContainerWriteMutex  : the thread that holds the mutex, 0 if none
\* merkleThreads        : for every thread its range of dependency_paths and
\*                        where it is in addFileToMerkleTreeHelper
\* merklePc             : "idle", "building" or "returned"
VARIABLES dependency_paths, fileDigests, nestedDirectory, digestToFilepaths,
          ContainerWriteMutex, merkleThreads, merklePc

merkleVars == <<dependency_paths, fileDigests, nestedDirectory, digestToFilepaths,
                ContainerWriteMutex, merkleThreads, merklePc>>

\* The units that are exercised on their own.
lateVars == <<pathVars, matchVars, ldVars, linkVars, parVars, merkleVars>>

\* Everything outside the parser and the control flow of the orchestrator.
auxVars == <<depsVars, infoVars, makeVars, tempFiles, lateVars>>

vars == <<parseVars, execVars, auxVars>>

\* number of recc processes started in one build directory
NProcs == 3

Procs == 1..NProcs

\* Every process creates the lock file at most once.
Inodes == 1..NProcs

\* const std::string RECC_DEPENDENCIES = "recc-scan-deps.d", and the name it
\* is populated under.
DepsDir == "recc-scan-deps.d"

DepsDirTmp == "recc-scan-deps.d.tmp"

DirNames == {DepsDir, DepsDirTmp}

\* A directory that does not exist.
AbsentDir == [exists |-> FALSE, files |-> {}]

\* A CommandFileInfo before get_file_info filled it.
EmptyFileInfo == [pc |-> "idle", d_dependencies |-> {}, cached |-> FALSE]

\* The state of the dependency cache before any process ran.
DepsIdle ==
    /\ dirs = [d \in DirNames |-> AbsentDir]
    /\ lockName = 0
    /\ lockHolder = [i \in Inodes |-> 0]
    /\ inodes = 0
    /\ dpc = [p \in Procs |-> "idle"]
    /\ lockfd = [p \in Procs |-> 0]
    /\ rules = [p \in Procs |-> <<>>]
    /\ rulestart = [p \in Procs |-> 0]
    /\ targets = [p \in Procs |-> {}]
    /\ scanKinds = [p \in Procs |-> <<>>]
    /\ scans = 0
    /\ failedProc = 0

InfoIdle ==
    /\ depFiles = <<>>
    /\ target = <<>>
    /\ scanOutput = <<>>
    /\ fileInfo = EmptyFileInfo
    /\ depsTimestamp = 0

\* Nothing parsed yet.
NoMakeResult == [done |-> FALSE, canonical |-> {}, reformatted |-> {}]

MakeIdle ==
    /\ makeDeps = <<>>
    /\ makeSeps = <<>>
    /\ makeResult = NoMakeResult

\* No helper was called.
NoPathResult == [op |-> "none", tag |-> "none", val |-> <<>>]

PathIdle ==
    /\ argPath = <<>>
    /\ argPrefix = <<>>
    /\ argN = 0
    /\ pathResult = NoPathResult

\* matchCompilerOptions was not called.
NoMatchResult == [done |-> FALSE, key |-> <<>>, rule |-> "nullptr"]

MatchIdle ==
    /\ matchRules = {}
    /\ matchToken = <<>>
    /\ matchResult = NoMatchResult

LdIdle ==
    /\ ldCmd = EmptyParsedCommand
    /\ ldLog = <<>>

LinkIdle ==
    /\ neededLibraries = <<>>
    /\ sharedLibraryQueue = <<>>
    /\ processedSharedLibraries = {}
    /\ linkDependencies = {}
    /\ inspections = <<>>
    /\ linkPc = "idle"

\* The calling thread outside parallelizeContainerOperations.
MainIdle == [pc |-> "idle", numThreads |-> 0, numItemsPerPartition |-> 0,
             partition |-> 0, start |-> 0, end |-> 0, joined |-> 0]

ParIdle ==
    /\ parCall = [containerLength |-> 0, RECC_MAX_THREADS |-> 0]
    /\ parMain = MainIdle
    /\ threadObjects = <<>>
    /\ handled = <<>>

\* A default-constructed NestedDirectory.
EmptyNestedDirectory == [d_files |-> <<>>, d_subdirs |-> {}]

MerkleIdle ==
    /\ dependency_paths = <<>>
    /\ fileDigests = <<>>
    /\ nestedDirectory = EmptyNestedDirectory
    /\ digestToFilepaths = <<>>
    /\ ContainerWriteMutex = 0
    /\ merkleThreads = <<>>
    /\ merklePc = "idle"

LateIdle == PathIdle /\ MatchIdle /\ LdIdle /\ LinkIdle /\ ParIdle /\ MerkleIdle

\* Every unit but the one named is idle, and is left alone.
LateIdleBut(unit) ==
    /\ IF unit = "path" THEN TRUE ELSE PathIdle
    /\ IF unit = "match" THEN TRUE ELSE MatchIdle
    /\ IF unit = "ld" THEN TRUE ELSE LdIdle
    /\ IF unit = "link" THEN TRUE ELSE LinkIdle
    /\ IF unit = "par" THEN TRUE ELSE ParIdle
    /\ IF unit = "merkle" THEN TRUE ELSE MerkleIdle

LateFrameBut(unit) ==
    /\ IF unit = "path" THEN TRUE ELSE UNCHANGED pathVars
    /\ IF unit = "match" THEN TRUE ELSE UNCHANGED matchVars
    /\ IF unit = "ld" THEN TRUE ELSE UNCHANGED ldVars
    /\ IF unit = "link" THEN TRUE ELSE UNCHANGED linkVars
    /\ IF unit = "par" THEN TRUE ELSE UNCHANGED parVars
    /\ IF unit = "merkle" THEN TRUE ELSE UNCHANGED merkleVars

AuxIdle == DepsIdle /\ InfoIdle /\ MakeIdle /\ tempFiles = {} /\ LateIdle

\* ActionResult as default-constructed.
EmptyActionResult ==
    [exit_code |-> 0, output_files |-> {}, stdout_digest |-> FALSE,
     stderr_digest |-> FALSE]

\* The flags of env.h that executeConfigured reads more than once.
DefaultEnv ==
    [RECC_CACHE_ONLY |-> FALSE, RECC_LINK |-> FALSE,
     RECC_LINK_METRICS_ONLY |-> FALSE, RECC_FORCE_REMOTE |-> FALSE,
     RECC_NO_EXECUTE |-> FALSE, RECC_SKIP_CACHE |-> FALSE,
     RECC_RUNNER_COMMAND |-> <<>>, RECC_CACHE_UPLOAD_LOCAL_BUILD |-> FALSE,
     RECC_CACHE_UPLOAD_FAILED_BUILD |-> FALSE, RECC_ACTION_UNCACHEABLE |-> FALSE]

\* The state of main before anything ran.
ExecIdle ==
    /\ env = DefaultEnv
    /\ pc = "main"
    /\ actionPtr = FALSE
    /\ buildError = "none"
    /\ products = {}
    /\ blobs = {}
    /\ digest_to_filepaths = {}
    /\ local_runner = FALSE
    /\ lookup = "none"
    /\ action_in_cache = FALSE
    /\ result = EmptyActionResult
    /\ actionResult = EmptyActionResult
    /\ calls = <<>>
    /\ casUploads = {}
    /\ uploadStatus = "none"
    /\ acUpdated = FALSE
    /\ thrown = "none"
    /\ retval = -1
    /\ exitCode = -1

(***************************************************************************)
(* The parser, one token per step                                          *)
(***************************************************************************)
\* The tokens commands are built from.
Tokens == {T_c, T_o, T_E, T_W, T_T, T_dash, T_at, T_src, T_obj}

Compilers == {S_gcc, S_dotgcc, S_ls}

ArgLists == UNION {[1..n -> Tokens] : n \in 0..MaxArgs}

InitParse ==
    /\ argv \in {<<c>> \o a : c \in Compilers, a \in ArgLists}
    /\ cmd = EmptyParsedCommand
    /\ parsePc = "idle"
    /\ ExecIdle
    /\ AuxIdle

\* createParsedCommand up to the call of parseCommand.
ParseStart ==
    /\ parsePc = "idle"
    /\ LET c == NewParsedCommand(argv, Cwd) IN
       IF ~compilerFound(c)
       THEN /\ cmd' = [c EXCEPT !.d_containsUnsupportedOptions = TRUE]
            /\ parsePc' = "done"
       ELSE /\ cmd' = c
            /\ parsePc' = IF c.d_originalCommand = <<>> THEN "finish" ELSE "parse"
    /\ UNCHANGED <<argv, execVars, auxVars>>

\* One iteration of the loop of parseCommand.  An iteration that reads past
\* the end of d_originalCommand has undefined behaviour: the process may
\* crash or go on with whatever was read.
ParseToken ==
    /\ parsePc = "parse"
    /\ cmd.d_originalCommand # <<>>
    /\ LET c == parseCommandStep(cmd, GccRules, Cwd) IN
       /\ cmd' = c
       /\ IF c.undefined
          THEN parsePc' \in {"crashed", "finish"}
          ELSE parsePc' = IF c.d_originalCommand = <<>> THEN "finish" ELSE "parse"
    /\ UNCHANGED <<argv, execVars, auxVars>>

\* createParsedCommand after parseCommand returned.
ParseFinish ==
    /\ parsePc = "finish"
    /\ cmd' = finishParsedCommand(cmd, argv)
    /\ parsePc' = "done"
    /\ UNCHANGED <<argv, execVars, auxVars>>

\* createParsedLinkerCommand up to the call of parseCommand.
LinkParseStart ==
    /\ parsePc = "idle"
    /\ LET c == NewParsedCommand(argv, Cwd) IN
       /\ cmd' = c
       /\ parsePc' = IF c.d_originalCommand = <<>> THEN "ldfinish" ELSE "ldparse"
    /\ UNCHANGED <<argv, execVars, auxVars>>

\* One iteration of the loop of parseCommand under the linker's rules.
LinkParseToken ==
    /\ parsePc = "ldparse"
    /\ cmd.d_originalCommand # <<>>
    /\ LET c == parseCommandStep(cmd, LdRules, Cwd) IN
       /\ cmd' = c
       /\ IF c.undefined
          THEN parsePc' \in {"crashed", "ldfinish"}
          ELSE parsePc' = IF c.d_originalCommand = <<>> THEN "ldfinish" ELSE "ldparse"
    /\ UNCHANGED <<argv, execVars, auxVars>>

\* createParsedLinkerCommand after parseCommand returned.
LinkParseFinish ==
    /\ parsePc = "ldfinish"
    /\ cmd' = finishParsedLinkerCommand(cmd, argv)
    /\ parsePc' = "lddone"
    /\ UNCHANGED <<argv, execVars, auxVars>>

NextParse ==
    \/ ParseStart \/ ParseToken \/ ParseFinish
    \/ LinkParseStart \/ LinkParseToken \/ LinkParseFinish

SpecParse == InitParse /\ [][NextParse]_vars

(***************************************************************************)
(* Claims about the parser (specification SpecParse)                       *)
(***************************************************************************)
\* The loop of parseCommand is about to process a token that is exactly "-".
AtStandardInputToken ==
    /\ parsePc = "parse"
    /\ cmd.d_originalCommand # <<>>
    /\ Head(cmd.d_originalCommand) = T_dash

\* C9, as stated: when the parser meets a token that is exactly "-", it marks
\* the command unsupported and stops parsing, so that no token after it is
\* processed: the step that handles "-" leaves nothing to parse.
C9_StopsAtStandardInput ==
    [][AtStandardInputToken =>
         /\ cmd'.d_containsUnsupportedOptions
         /\ cmd'.d_originalCommand = <<>>]_vars

\* C9, amended: the step that handles a token that is exactly "-" marks the
\* command unsupported and drops that one token only; the tokens after it are
\* still to be parsed, the command built so far is untouched, and once marked
\* unsupported the command stays so and ends up neither a compile nor a link
\* command.
C9_StandardInputMarksUnsupported ==
    [][/\ AtStandardInputToken =>
            /\ cmd'.d_containsUnsupportedOptions
            /\ cmd'.d_originalCommand = Tail(cmd.d_originalCommand)
            /\ cmd'.d_command = cmd.d_command
            /\ cmd'.d_inputFiles = cmd.d_inputFiles
            /\ cmd'.d_commandProducts = cmd.d_commandProducts
       /\ (cmd.d_containsUnsupportedOptions /\ ~cmd.undefined) =>
            /\ cmd'.d_containsUnsupportedOptions
            /\ parsePc' = "done" =>
                 ~cmd'.d_compilerCommand /\ ~cmd'.d_linkerCommand]_vars

\* A command whose "-" was followed by "-o a.o": parsing went on after the
\* "-" and recorded the product, and the command is unsupported.
C9_Witness ==
    /\ parsePc = "done"
    /\ argv = <<S_dotgcc, T_dash, T_o, T_obj>>
    /\ T_obj \in cmd.d_commandProducts
    /\ cmd.d_containsUnsupportedOptions
    /\ ~cmd.d_compilerCommand

\* The factory returned a ParsedCommand, through the compiler entry point
\* ("done") or the linker entry point ("lddone"), without having read past
\* the end of the command.
Produced == parsePc \in {"done", "lddone"} /\ ~cmd.undefined

\* C11: for every ParsedCommand the factory produces, through the compiler
\* entry point or the linker entry point, is_compile and is_link are never
\* both true.
C11_NeverCompileAndLink ==
    Produced => ~(cmd.d_compilerCommand /\ cmd.d_linkerCommand)

\* "./gcc -c a.c" came out of the compiler entry point as a compile command
\* that is not a link command.
C11_Witness ==
    /\ parsePc = "done"
    /\ argv = <<S_dotgcc, T_c, T_src>>
    /\ cmd.d_compilerCommand
    /\ ~cmd.d_linkerCommand

\* C12, as stated: after the post-parse fix-up every command that is neither
\* is_compile nor unsupported has is_link = true.
C12_NotCompileNotUnsupportedIsLink ==
    (parsePc = "done" /\ ~cmd.undefined) =>
        ((~cmd.d_compilerCommand /\ ~cmd.d_containsUnsupportedOptions) =>
             cmd.d_linkerCommand)

\* C12, amended: after the post-parse fix-up a command that is neither
\* is_compile nor unsupported has is_link = true exactly when it names at
\* least one input file; a command without input files is neither a compile
\* nor a link command, whatever its options.  The linker entry point makes
\* every command that is not unsupported a link command.
C12_WithInputFilesNotCompileIsLink ==
    /\ (parsePc = "done" /\ ~cmd.undefined) =>
          /\ (~cmd.d_compilerCommand /\ ~cmd.d_containsUnsupportedOptions) =>
                (cmd.d_linkerCommand <=> cmd.d_inputFiles # <<>>)
          /\ cmd.d_inputFiles = <<>> =>
                (~cmd.d_compilerCommand /\ ~cmd.d_linkerCommand)
    /\ (parsePc = "lddone" /\ ~cmd.undefined) =>
          (cmd.d_linkerCommand <=> ~cmd.d_containsUnsupportedOptions)

\* "./gcc a.c -o a.o": no -c, nothing unsupported, one input file, and the
\* fix-up made it a link command.
C12_Witness ==
    /\ parsePc = "done"
    /\ argv = <<S_dotgcc, T_src, T_o, T_obj>>
    /\ ~cmd.d_compilerCommand
    /\ ~cmd.d_containsUnsupportedOptions
    /\ cmd.d_inputFiles # <<>>
    /\ cmd.d_linkerCommand

(***************************************************************************)
(* deps.cpp, actionbuilder.cpp: from a parsed command to an Action         *)
(***************************************************************************)
\* The text after the last '.', or <<>> when the name has no '.'.
Suffix(file) ==
    LET pos == RFindFrom(file, ".", Len(file))
    IN  IF pos = 0 THEN <<>> ELSE SubstrFrom(file, pos)

HasSuffix(file) == RFindFrom(file, ".", Len(file)) # 0

is_source_file(file) ==
    HasSuffix(file) /\ Suffix(file) \in {<<"c">>, <<"c", "c">>, <<"C">>}

is_object_file(file) ==
    HasSuffix(file) /\ Suffix(file) \in {<<"a">>, <<"o">>, <<"s", "o">>}

stripDirectory(path) ==
    LET slash == RFindFrom(path, "/", Len(path))
    IN  IF slash = 0 THEN path ELSE SubstrFrom(path, slash)

\* path.substr(0, path.rfind(".")) + suffix; rfind gives npos when there is
\* no '.', and substr(0, npos) is the whole path.
replaceSuffix(path, suffix) ==
    LET pos == RFindFrom(path, ".", Len(path))
    IN  (IF pos = 0 THEN path ELSE Substr(path, 0, pos - 1)) \o suffix

SeqRange(s) == {s[i] : i \in 1..Len(s)}

S_aout == <<"a", ".", "o", "u", "t">>

\* Deps::determine_products, without headers, -MD and split-dwarf products.
determine_products(c) ==
    LET inputs  == SeqRange(c.d_inputFiles)
        sources == {f \in inputs : c.d_compilerCommand /\ is_source_file(f)}
        objects == {f \in inputs : ~(c.d_compilerCommand /\ is_source_file(f))
                                   /\ c.d_linkerCommand /\ is_object_file(f)}
    IN  IF inputs # sources \cup objects
        THEN [tag |-> "invalid_argument", val |-> {}]
        ELSE IF sources = {} /\ objects = {}
        THEN [tag |-> "ok", val |-> {}]
        ELSE IF c.d_commandProducts # {}
        THEN [tag |-> "ok", val |-> c.d_commandProducts]
        ELSE IF c.d_linkerCommand
        THEN [tag |-> "ok", val |-> {S_aout}]
        ELSE [tag |-> "ok",
              val |-> {stripDirectory(replaceSuffix(s, <<".", "o">>)) : s \in sources}]

\* ActionBuilder::getDependencies.  scan is how the dependency subprocess
\* (compiler -M, or the linker probe) ended, scannedDeps what it reported.
getDependencies(c, scan, scannedDeps) ==
    IF scan = "subprocess_failed_error"
    THEN [tag |-> "subprocess_failed_error", dependencies |-> {}, products |-> {}]
    ELSE IF scan = "runtime_error"
    THEN [tag |-> "runtime_error", dependencies |-> {}, products |-> {}]
    ELSE LET p == determine_products(c) IN
         IF p.tag # "ok"
         THEN [tag |-> p.tag, dependencies |-> {}, products |-> {}]
         ELSE [tag |-> "ok", dependencies |-> scannedDeps, products |-> p.val]

SetMax(S) == IF S = {} THEN 0 ELSE CHOOSE m \in S : \A x \in S : x <= m

commonAncestorPath(dependencies, prods, workingDirectory) ==
    LET parentsNeeded ==
            SetMax({parentDirectoryLevels(d) : d \in dependencies \cup prods})
    IN  lastNSegments(workingDirectory, parentsNeeded)

\* Digests: of a file by its path, of an in-memory blob by its role.
FileDigest(path) == <<"file">> \o path

ActionDigest == <<"blob", "action">>

CommandDigest == <<"blob", "command">>

RootDigest == <<"blob", "root">>

StdoutDigest == <<"blob", "stdout">>

StderrDigest == <<"blob", "stderr">>

\* A digest no blob of the invocation has.
BogusDigest == <<"blob", "unknown">>

\* What BuildAction hands back: tag is "action", "nullptr" or "throw".
\* why tells what kept the Action from being built, what is the exception
\* that leaves BuildAction.
NoAction(why) ==
    [tag |-> "nullptr", why |-> why, what |-> "none", products |-> {},
     blobs |-> {}, digest_to_filepaths |-> {}]

ThrowFromBuild(what, why) ==
    [tag |-> "throw", why |-> why, what |-> what, products |-> {},
     blobs |-> {}, digest_to_filepaths |-> {}]

\* lastNSegments threw inside commonAncestorPath, which BuildAction calls
\* outside of any try block.
lastNSegmentsFailure(what) == ThrowFromBuild(what, "lastNSegments")

\* A variant that lets the scanner's failure escape from BuildAction.
scanFailure_rethrow(what) == ThrowFromBuild(what, what)

\* The catch clauses around getDependencies.
scanFailure(what) == NoAction(what)

\* BuildAction from the dependency list on: path rewriting, the common
\* ancestor, the Merkle tree, the product check and the digests.
BuildActionFromDeps(c, cwd, e, deps, prods) ==
    LET depPaths == {IF isAbsolutePath(d)
                     THEN rewritePathToRelative(resolvePathFromPrefixMap(d), cwd)
                     ELSE d : d \in deps}
        ancestor == commonAncestorPath(depPaths, prods, cwd)
        inputs   == {d \in depPaths : ~isAbsolutePath(d)}
    IN  IF ancestor.tag # "ok" THEN lastNSegmentsFailure("logic_error")
        ELSE IF \E p \in prods : isAbsolutePath(p) THEN NoAction("absolute_product")
        ELSE [tag |-> "action", why |-> "none", what |-> "none",
              products |-> IF e.RECC_LINK_METRICS_ONLY /\ c.d_linkerCommand
                              /\ ~e.RECC_FORCE_REMOTE
                           THEN {} ELSE prods,
              blobs |-> {RootDigest, CommandDigest},
              digest_to_filepaths |-> {FileDigest(d) : d \in inputs}]

\* ActionBuilder::BuildAction
BuildAction(c, cwd, e, depsOverride, scan, scannedDeps) ==
    IF ~c.d_compilerCommand /\ ~c.d_linkerCommand /\ ~e.RECC_FORCE_REMOTE
    THEN NoAction("not_compile_or_link")
    ELSE IF depsOverride = {} /\ ~e.RECC_FORCE_REMOTE
    THEN LET info == getDependencies(c, scan, scannedDeps) IN
         IF info.tag # "ok" THEN scanFailure(info.tag)
         ELSE IF info.dependencies = {} THEN NoAction("no_deps")
         ELSE IF info.products = {} THEN NoAction("no_products")
         ELSE BuildActionFromDeps(c, cwd, e, info.dependencies, info.products)
    ELSE BuildActionFromDeps(c, cwd, e, depsOverride, {})

(***************************************************************************)
(* shellutils.cpp, executioncontext.cpp, recc.m.cpp                        *)
(***************************************************************************)
\* ShellUtils::splitCommand for a command line without quotes or
\* backslashes: the maximal runs of characters other than blanks.
RECURSIVE splitCommandFrom(_, _, _)
splitCommandFrom(line, word, words) ==
    IF line = <<>> THEN (IF word = <<>> THEN words ELSE Append(words, word))
    ELSE IF Head(line) = " "
    THEN splitCommandFrom(Tail(line), <<>>,
                          IF word = <<>> THEN words ELSE Append(words, word))
    ELSE splitCommandFrom(Tail(line), Append(word, Head(line)), words)

splitCommand(line) == splitCommandFrom(line, <<>>, <<>>)

\* enum ReturnCode of recc.m.cpp, and the exit code after a cancellation.
RC_OK == 0

RC_USAGE == 100

RC_EXEC_FAILURE == 101

RC_GRPC_ERROR == 102

RC_CANCELLED == 130

\* Exit codes of the subprocesses and of the remote action.
ExitCodes == {0, 1}

RunnerCommands == {<<>>, <<" ">>, <<"r", " ", "x">>}

\* One entry of the record of calls to collaborators; rc is the exit code a
\* subprocess ended with, -1 for calls that run none.
Call(op) == [op |-> op, rc |-> -1]

CallRc(op, rc) == [op |-> op, rc |-> rc]

Called(op) == \E i \in 1..Len(calls) : calls[i].op = op

\* A variant of uploadResources that passes over a digest it knows in
\* neither map and uploads the others.
uploadResources_skipUnknown(bl, d2f, missingDigests, rpc, sent) ==
    IF rpc = "findMissingBlobs_GrpcError"
    THEN [thrown |-> "GrpcError", uploaded |-> {}]
    ELSE IF rpc = "uploadBlobs_GrpcError"
    THEN [thrown |-> "GrpcError", uploaded |-> sent \cap (bl \cup d2f)]
    ELSE [thrown |-> "none", uploaded |-> missingDigests \cap (bl \cup d2f)]

\* ExecutionContext::uploadResources.  missingDigests is the answer of
\* FindMissingBlobs, rpc tells which of the two CAS calls fails, sent is what
\* reached the CAS before a failing uploadBlobs gave up.
uploadResources(bl, d2f, missingDigests, rpc, sent) ==
    IF rpc = "findMissingBlobs_GrpcError"
    THEN [thrown |-> "GrpcError", uploaded |-> {}]
    ELSE IF \E d \in missingDigests : d \notin bl /\ d \notin d2f
    THEN [thrown |-> "runtime_error", uploaded |-> {}]
    ELSE IF rpc = "uploadBlobs_GrpcError"
    THEN [thrown |-> "GrpcError", uploaded |-> sent]
    ELSE [thrown |-> "none", uploaded |-> missingDigests]

\* A variant of the handler that carries on after a failed upload.
uploadFailed_ignored(up) == FALSE

\* The catch clause around uploadResources before Execute: did it throw?
uploadFailed(up) == up.thrown # "none"

UploadRpcs == {"ok", "findMissingBlobs_GrpcError", "uploadBlobs_GrpcError"}

\* The entry of a call of uploadResources in the record of calls: the answer
\* FindMissingBlobs gave (empty when the call itself failed), what reached
\* the CAS, and the exception the function left with.
UploadCall(missingDigests, rpc, up) ==
    [op |-> "uploadResources", rc |-> -1,
     missing |-> IF rpc = "findMissingBlobs_GrpcError" THEN {} ELSE missingDigests,
     uploaded |-> up.uploaded,
     thrown |-> up.thrown]

\* A variant of the handler that goes on to updateActionCache after a
\* failed upload.
skipActionCacheUpdate_never(up) == FALSE

\* The catch clause around uploadResources after a local build: an upload
\* that threw skips the update of the action cache.
skipActionCacheUpdate(up) == up.thrown # "none"

\* The answers FindMissingBlobs may give about the digests asked for:
\* nothing is missing, the Action is, everything is, and each of these with
\* a digest that was not asked for.
MissingAnswers(asked) ==
    {known \cup extra : known \in {{}, asked \cap {ActionDigest}, asked},
                        extra \in {{}, {BogusDigest}}}

\* The ActionResults a cache or an executor may hand back: stdout and
\* stderr are both inlined or both referenced by digest.
ActionResults(prods) ==
    {[exit_code |-> rc, output_files |-> files, stdout_digest |-> byDigest,
      stderr_digest |-> byDigest] :
        rc \in ExitCodes, files \in {{}, prods}, byDigest \in BOOLEAN}

\* A variant of the lookup's catch clause that lets the error go up.
fetchFromActionCache_rethrow(outcome, cached) ==
    CASE outcome = "hit"   -> [in_cache |-> TRUE, result |-> cached, thrown |-> "none"]
      [] outcome = "miss"  -> [in_cache |-> FALSE, result |-> EmptyActionResult,
                               thrown |-> "none"]
      [] outcome = "error" -> [in_cache |-> FALSE, result |-> EmptyActionResult,
                               thrown |-> "GrpcError"]

\* The try block around fetchFromActionCache: what the lookup leaves in
\* action_in_cache and result, and what it lets escape.
fetchFromActionCache(outcome, cached) ==
    CASE outcome = "hit"   -> [in_cache |-> TRUE, result |-> cached, thrown |-> "none"]
      [] outcome = "miss"  -> [in_cache |-> FALSE, result |-> EmptyActionResult,
                               thrown |-> "none"]
      [] outcome = "error" -> [in_cache |-> FALSE, result |-> EmptyActionResult,
                               thrown |-> "none"]

\* A variant that always takes the upload-and-execute branch.
needsExecution_always(in_cache, e, c) == TRUE

\* The condition guarding the upload-and-execute branch of executeConfigured.
needsExecution(in_cache, e, c) ==
    ~in_cache \/ (e.RECC_LINK_METRICS_ONLY /\ c.d_linkerCommand)

\* The condition under which executeConfigured calls BuildAction.
wantsAction(e, c) ==
    \/ c.d_compilerCommand
    \/ ((e.RECC_LINK \/ e.RECC_LINK_METRICS_ONLY) /\ c.d_linkerCommand)
    \/ e.RECC_FORCE_REMOTE

\* A variant of the gate that uploads the result of a failed build too.
mayCacheLocalBuild_ignoreExit(e, r, prods) ==
    Cardinality(r.output_files) = Cardinality(prods)

\* A variant of the gate that does not count the products.
mayCacheLocalBuild_ignoreProducts(e, r, prods) ==
    ~(r.exit_code # 0 /\ ~e.RECC_CACHE_UPLOAD_FAILED_BUILD)

\* After a local build in cache-only mode: may its result be uploaded?
mayCacheLocalBuild(e, r, prods) ==
    /\ ~(r.exit_code # 0 /\ ~e.RECC_CACHE_UPLOAD_FAILED_BUILD)
    /\ Cardinality(r.output_files) = Cardinality(prods)

\* A variant of main's handlers that reports every exception as a failure.
exitCodeFor_mut(what) == RC_EXEC_FAILURE

\* The catch clauses of main.
exitCodeFor(what) ==
    CASE what = "invalid_argument"    -> RC_USAGE
      [] what = "GrpcError_CANCELLED" -> RC_CANCELLED
      [] what = "GrpcError"           -> RC_GRPC_ERROR
      [] OTHER                        -> RC_EXEC_FAILURE

\* A variant of the local fallback that reports success whatever happened.
execLocallyReturn_mut(rc) == 0

\* return execLocally(argc, argv)
execLocallyReturn(rc) == rc

(***************************************************************************)
(* main and ExecutionContext::executeConfigured, one collaborator call per *)
(* step                                                                    *)
(***************************************************************************)
\* The commands recc is started with.
Commands ==
    { <<>>,
      <<T_help>>,
      <<S_gcc, T_c, T_src, T_o, T_obj>>,
      <<S_dotgcc, T_c, T_src, T_o, T_obj>>,
      <<S_dotgcc, T_c, T_src>>,
      <<S_dotgcc, T_c, T_src, T_o, T_upobj>>,
      <<S_dotgcc, T_c, T_src, T_o, T_absobj>>,
      <<S_dotgcc, T_obj>>,
      <<S_dotgcc, T_c, T_dash>>,
      <<S_dotgcc, T_c, T_obj>>,
      <<S_ls>>,
      <<S_binls>> }

\* The largest number of boolean switches set in one environment.
MaxFlags == 2

FlagCount(e) ==
    Cardinality({f \in {"RECC_CACHE_ONLY", "RECC_LINK", "RECC_LINK_METRICS_ONLY",
                        "RECC_FORCE_REMOTE", "RECC_NO_EXECUTE", "RECC_SKIP_CACHE",
                        "RECC_CACHE_UPLOAD_LOCAL_BUILD",
                        "RECC_CACHE_UPLOAD_FAILED_BUILD",
                        "RECC_ACTION_UNCACHEABLE"} : e[f]})

AllEnvs ==
    [RECC_CACHE_ONLY : BOOLEAN, RECC_LINK : BOOLEAN,
     RECC_LINK_METRICS_ONLY : BOOLEAN, RECC_FORCE_REMOTE : BOOLEAN,
     RECC_NO_EXECUTE : BOOLEAN, RECC_SKIP_CACHE : BOOLEAN,
     RECC_RUNNER_COMMAND : RunnerCommands,
     RECC_CACHE_UPLOAD_LOCAL_BUILD : BOOLEAN,
     RECC_CACHE_UPLOAD_FAILED_BUILD : BOOLEAN,
     RECC_ACTION_UNCACHEABLE : BOOLEAN]

Envs == {e \in AllEnvs : FlagCount(e) <= MaxFlags}

Init ==
    /\ argv \in Commands
    /\ cmd = EmptyParsedCommand
    /\ parsePc = "idle"
    /\ env \in Envs
    /\ pc = "main"
    /\ actionPtr = FALSE
    /\ buildError = "none"
    /\ products = {}
    /\ blobs = {}
    /\ digest_to_filepaths = {}
    /\ local_runner = FALSE
    /\ lookup = "none"
    /\ action_in_cache = FALSE
    /\ result = EmptyActionResult
    /\ actionResult = EmptyActionResult
    /\ calls = <<>>
    /\ casUploads = {}
    /\ uploadStatus = "none"
    /\ acUpdated = FALSE
    /\ thrown = "none"
    /\ retval = -1
    /\ exitCode = -1
    /\ AuxIdle

\* return n from executeConfigured
Return(n) ==
    /\ pc' = "returned"
    /\ retval' = n
    /\ UNCHANGED thrown

\* an exception leaves executeConfigured
Throw(what) ==
    /\ pc' = "thrown"
    /\ thrown' = what
    /\ UNCHANGED retval

Goto(label) ==
    /\ pc' = label
    /\ UNCHANGED <<thrown, retval>>

\* main up to the call of ExecutionContext::execute.
MainArgs ==
    /\ pc = "main"
    /\ IF argv = <<>>
       THEN pc' = "exited" /\ exitCode' = RC_USAGE
       ELSE IF argv[1] \in {T_help, <<"-", "h">>, <<"-", "-", "v", "e", "r", "s", "i", "o", "n">>,
                            <<"-", "v">>}
       THEN pc' = "exited" /\ exitCode' = RC_OK
       ELSE IF argv[1] # <<>> /\ argv[1][1] = "-"
       THEN pc' = "exited" /\ exitCode' = RC_USAGE
       ELSE pc' = "execute" /\ UNCHANGED exitCode
    /\ UNCHANGED <<parseVars, auxVars, env, actionPtr, buildError, products, blobs,
                   digest_to_filepaths, local_runner, lookup, action_in_cache,
                   result, actionResult, calls, casUploads, uploadStatus,
                   acUpdated, thrown, retval>>

\* The statsd publisher, createParsedCommand and the per-kind cache-only
\* switches (RECC_COMPILE_CACHE_ONLY, RECC_LINK_CACHE_ONLY).
Classify ==
    /\ pc = "execute"
    /\ \E statsd \in {"ok", "runtime_error"}, kindCacheOnly \in BOOLEAN :
         IF statsd # "ok"
         THEN Throw(statsd) /\ UNCHANGED <<cmd, env>>
         ELSE LET c == createParsedCommand(argv, Cwd) IN
              /\ cmd' = c
              /\ env' = [env EXCEPT !.RECC_CACHE_ONLY =
                            IF c.d_compilerCommand \/ c.d_linkerCommand
                            THEN @ \/ kindCacheOnly ELSE @]
              /\ Goto("build")
    /\ UNCHANGED <<argv, parsePc, auxVars, actionPtr, buildError, products, blobs,
                   digest_to_filepaths, local_runner, lookup, action_in_cache,
                   result, actionResult, calls, casUploads, uploadStatus,
                   acUpdated, exitCode>>

\* The call of ActionBuilder::BuildAction and its catch clause, which logs
\* an invalid_argument and rethrows it.
Build ==
    /\ pc = "build"
    /\ IF ~wantsAction(env, cmd)
       THEN /\ Goto("built")
            /\ UNCHANGED <<actionPtr, buildError, products, blobs, digest_to_filepaths>>
       ELSE \E depsOverride \in {{}, {T_src}},
               scan \in {"ok", "subprocess_failed_error", "runtime_error"},
               scannedDeps \in {{}, SeqRange(cmd.d_inputFiles)} :
              LET b == BuildAction(cmd, Cwd, env, depsOverride, scan, scannedDeps)
              IN  /\ buildError' = b.why
                  /\ actionPtr' = (b.tag = "action")
                  /\ products' = b.products
                  /\ blobs' = b.blobs
                  /\ digest_to_filepaths' = b.digest_to_filepaths
                  /\ IF b.tag = "throw" THEN Throw(b.what) ELSE Goto("built")
    /\ UNCHANGED <<parseVars, auxVars, env, local_runner, lookup, action_in_cache, result,
                   actionResult, calls, casUploads, uploadStatus, acUpdated,
                   exitCode>>

\* if (!actionPtr): nothing to do under RECC_NO_EXECUTE, else run the
\* command locally.
LocalFallback ==
    /\ pc = "built"
    /\ ~actionPtr
    /\ IF env.RECC_NO_EXECUTE
       THEN Return(0) /\ UNCHANGED calls
       ELSE \E rc \in ExitCodes :
              /\ calls' = Append(calls, CallRc("execLocally", rc))
              /\ Return(execLocallyReturn(rc))
    /\ UNCHANGED <<parseVars, auxVars, env, actionPtr, buildError, products, blobs,
                   digest_to_filepaths, local_runner, lookup, action_in_cache,
                   result, actionResult, casUploads, uploadStatus, acUpdated,
                   exitCode>>

\* With an Action: RECC_NO_EXECUTE, then the channels and the clients.
\* channels is how connecting went.
Configure ==
    /\ pc = "built"
    /\ actionPtr
    /\ IF env.RECC_NO_EXECUTE
       THEN Return(0) /\ UNCHANGED local_runner
       ELSE \E channels \in {"ok", "runtime_error", "GrpcError"} :
              LET runner == env.RECC_CACHE_ONLY /\ env.RECC_RUNNER_COMMAND # <<>> IN
              IF channels # "ok"
              THEN Throw(channels) /\ UNCHANGED local_runner
              ELSE /\ local_runner' = runner
                   /\ IF runner /\ Len(splitCommand(env.RECC_RUNNER_COMMAND)) < 1
                      THEN Throw("invalid_argument")
                      ELSE Goto("lookup")
    /\ UNCHANGED <<parseVars, auxVars, env, actionPtr, buildError, products, blobs,
                   digest_to_filepaths, lookup, action_in_cache, result,
                   actionResult, calls, casUploads, uploadStatus, acUpdated,
                   exitCode>>

\* The action-cache lookup (unless RECC_SKIP_CACHE) and the choice of the
\* branch that follows it.
CacheLookup ==
    /\ pc = "lookup"
    /\ \E outcome \in IF env.RECC_SKIP_CACHE THEN {"skipped"} ELSE {"hit", "miss", "error"},
          cached \in ActionResults(products) :
         LET got == IF outcome = "skipped"
                    THEN [in_cache |-> FALSE, result |-> EmptyActionResult,
                          thrown |-> "none"]
                    ELSE fetchFromActionCache(outcome, cached)
         IN  /\ lookup' = outcome
             /\ calls' = IF outcome = "skipped" THEN calls
                         ELSE Append(calls, Call("fetchFromActionCache"))
             /\ action_in_cache' = got.in_cache
             /\ result' = got.result
             /\ IF got.thrown # "none"
                THEN Throw(got.thrown) /\ UNCHANGED blobs
                ELSE IF needsExecution(got.in_cache, env, cmd)
                THEN /\ blobs' = blobs \cup {ActionDigest}
                     /\ Goto(IF env.RECC_CACHE_ONLY /\ ~local_runner
                             THEN "localbuild" ELSE "upload")
                ELSE Goto("download") /\ UNCHANGED blobs
    /\ UNCHANGED <<parseVars, auxVars, env, actionPtr, buildError, products,
                   digest_to_filepaths, local_runner, actionResult, casUploads,
                   uploadStatus, acUpdated, exitCode>>

\* Cache-only mode without a runner: recc runs the command itself, with
\* execLocally, or with execLocallyWithActionResult when the result may be
\* uploaded.
LocalBuild ==
    /\ pc = "localbuild"
    /\ LET cache_upload_local_build ==
               /\ env.RECC_CACHE_UPLOAD_LOCAL_BUILD
               /\ ~env.RECC_ACTION_UNCACHEABLE
               /\ ~action_in_cache
       IN  IF ~cache_upload_local_build
           THEN \E rc \in ExitCodes :
                  /\ calls' = Append(calls, CallRc("execLocally", rc))
                  /\ Return(execLocallyReturn(rc))
                  /\ UNCHANGED <<actionResult, blobs, digest_to_filepaths>>
           ELSE \E r \in ActionResults(products) :
                  /\ calls' = Append(calls, CallRc("execLocallyWithActionResult",
                                                   r.exit_code))
                  /\ actionResult' = [r EXCEPT !.stdout_digest = TRUE,
                                               !.stderr_digest = TRUE]
                  /\ blobs' = blobs \cup {StdoutDigest, StderrDigest}
                  /\ digest_to_filepaths' = {FileDigest(p) : p \in r.output_files}
                  /\ IF mayCacheLocalBuild(env, r, products)
                     THEN Goto("localupload")
                     ELSE Return(r.exit_code)
    /\ UNCHANGED <<parseVars, auxVars, env, actionPtr, buildError, products, local_runner,
                   lookup, action_in_cache, result, casUploads, uploadStatus,
                   acUpdated, exitCode>>

\* uploadResources after a local build; a failure is logged and ends the
\* invocation with the build's exit code.
LocalUpload ==
    /\ pc = "localupload"
    /\ \E missingDigests \in MissingAnswers(blobs \cup digest_to_filepaths),
          rpc \in UploadRpcs :
       \E sent \in SUBSET missingDigests :
         LET up == uploadResources(blobs, digest_to_filepaths, missingDigests,
                                   rpc, sent)
         IN  /\ calls' = Append(calls, UploadCall(missingDigests, rpc, up))
             /\ casUploads' = casUploads \cup up.uploaded
             /\ uploadStatus' = IF up.thrown = "none" THEN "ok" ELSE "failed"
             /\ IF skipActionCacheUpdate(up)
                THEN Return(actionResult.exit_code)
                ELSE Goto("localupdate")
    /\ UNCHANGED <<parseVars, auxVars, env, actionPtr, buildError, products, blobs,
                   digest_to_filepaths, local_runner, lookup, action_in_cache,
                   result, actionResult, acUpdated, exitCode>>

\* updateActionCache after a local build; a failure is logged only.
LocalUpdate ==
    /\ pc = "localupdate"
    /\ \E ok \in BOOLEAN :
         /\ calls' = Append(calls, Call("updateActionCache"))
         /\ acUpdated' = ok
         /\ Return(actionResult.exit_code)
    /\ UNCHANGED <<parseVars, auxVars, env, actionPtr, buildError, products, blobs,
                   digest_to_filepaths, local_runner, lookup, action_in_cache,
                   result, actionResult, casUploads, uploadStatus, exitCode>>

\* uploadResources before Execute; a failure is logged and rethrown.
Upload ==
    /\ pc = "upload"
    /\ \E missingDigests \in MissingAnswers(blobs \cup digest_to_filepaths),
          rpc \in UploadRpcs :
       \E sent \in SUBSET missingDigests :
         LET up == uploadResources(blobs, digest_to_filepaths, missingDigests,
                                   rpc, sent)
         IN  /\ calls' = Append(calls, UploadCall(missingDigests, rpc, up))
             /\ casUploads' = casUploads \cup up.uploaded
             /\ uploadStatus' = IF up.thrown = "none" THEN "ok" ELSE "failed"
             /\ IF uploadFailed(up)
                THEN Throw(up.thrown)
                ELSE Goto("executeAction")
    /\ UNCHANGED <<parseVars, auxVars, env, actionPtr, buildError, products, blobs,
                   digest_to_filepaths, local_runner, lookup, action_in_cache,
                   result, actionResult, acUpdated, exitCode>>

\* execClient->executeAction, remote or in the local runner; a failure is
\* logged and rethrown.
Execute ==
    /\ pc = "executeAction"
    /\ \E outcome \in {"ok", "GrpcError", "GrpcError_CANCELLED", "runtime_error"},
          r \in ActionResults(products) :
         /\ calls' = Append(calls, CallRc("executeAction",
                                          IF outcome = "ok" THEN r.exit_code ELSE -1))
         /\ IF outcome = "ok"
            THEN result' = r /\ Goto("download")
            ELSE Throw(outcome) /\ UNCHANGED result
    /\ UNCHANGED <<parseVars, auxVars, env, actionPtr, buildError, products, blobs,
                   digest_to_filepaths, local_runner, lookup, action_in_cache,
                   actionResult, casUploads, uploadStatus, acUpdated, exitCode>>

\* stdoutFilename and stderrFilename, added to the output files when stdout
\* and stderr are referenced by digest.
tempOutputFiles(r) ==
    (IF r.stdout_digest THEN {".recc-stdout"} ELSE {}) \cup
    (IF r.stderr_digest THEN {".recc-stderr"} ELSE {})

\* After downloadOutputs returned: each fetched file is printed and unlinked.
printAndUnlink(files, r) == files \ tempOutputFiles(r)

\* The check of the result's outputs, then downloadOutputs (the output
\* files unless RECC_DONT_SAVE_OUTPUT, plus stdout and stderr when they are
\* referenced by digest); a failure is logged and rethrown, with the files
\* downloadOutputs had written by then left where they are.
Download ==
    /\ pc = "download"
    /\ IF result.exit_code = 0 /\ result.output_files = {} /\ products # {}
       THEN Throw("runtime_error") /\ UNCHANGED <<calls, tempFiles>>
       ELSE \E outcome \in {"ok", "GrpcError", "runtime_error"} :
              /\ calls' = Append(calls, Call("downloadOutputs"))
              /\ IF outcome = "ok"
                 THEN /\ Return(result.exit_code)
                      /\ tempFiles' =
                            printAndUnlink(tempFiles \cup tempOutputFiles(result), result)
                 ELSE /\ Throw(outcome)
                      /\ \E written \in SUBSET tempOutputFiles(result) :
                            tempFiles' = tempFiles \cup written
    /\ UNCHANGED <<parseVars, depsVars, infoVars, makeVars, lateVars, env,
                   actionPtr, buildError, products, blobs,
                   digest_to_filepaths, local_runner, lookup, action_in_cache,
                   result, actionResult, casUploads, uploadStatus, acUpdated,
                   exitCode>>

\* main: return the value of context.execute.
MainReturn ==
    /\ pc = "returned"
    /\ pc' = "exited"
    /\ exitCode' = retval
    /\ UNCHANGED <<parseVars, auxVars, env, actionPtr, buildError, products, blobs,
                   digest_to_filepaths, local_runner, lookup, action_in_cache,
                   result, actionResult, calls, casUploads, uploadStatus,
                   acUpdated, thrown, retval>>

\* main: the catch clauses around context.execute.
MainCatch ==
    /\ pc = "thrown"
    /\ pc' = "exited"
    /\ exitCode' = exitCodeFor(thrown)
    /\ UNCHANGED <<parseVars, auxVars, env, actionPtr, buildError, products, blobs,
                   digest_to_filepaths, local_runner, lookup, action_in_cache,
                   result, actionResult, calls, casUploads, uploadStatus,
                   acUpdated, thrown, retval>>

Next ==
    \/ MainArgs
    \/ Classify
    \/ Build
    \/ LocalFallback
    \/ Configure
    \/ CacheLookup
    \/ LocalBuild
    \/ LocalUpload
    \/ LocalUpdate
    \/ Upload
    \/ Execute
    \/ Download
    \/ MainReturn
    \/ MainCatch

Spec == Init /\ [][Next]_vars

(***************************************************************************)
(* Claims about the orchestrator and main (specification Spec)             *)
(***************************************************************************)
\* The names of the collaborator calls made so far, in order.
CallOps == [i \in 1..Len(calls) |-> calls[i].op]

\* executeConfigured has returned a value (to main, or main has exited
\* with it).
Returned == pc \in {"returned", "exited"} /\ thrown = "none" /\ retval # -1

MetricsOnlyLink == env.RECC_LINK_METRICS_ONLY /\ cmd.d_linkerCommand

\* C1, as stated: whenever the action-cache lookup returns a result, neither
\* Upload nor Execute is performed, and the invocation ends after Download
\* with the cached result's exit code.
C1_HitGoesStraightToDownload ==
    action_in_cache =>
        /\ ~Called("uploadResources")
        /\ ~Called("executeAction")
        /\ pc = "exited" => Called("downloadOutputs") /\ exitCode = result.exit_code

\* C1, amended: on a cache hit, unless RECC_LINK_METRICS_ONLY is set and the
\* command is a link command, the only collaborator call after the lookup is
\* Download (no Upload, no Execute, no local run); when the download succeeds
\* the cached result's exit code is returned; the only errors are the one of
\* the outputs check (exit code 0, no output files, products expected), raised
\* before Download, and the one of a failed download.  With
\* RECC_LINK_METRICS_ONLY and a link command a hit does not end the work: an
\* invocation that returns has executed the action or run the command.
C1_HitDownloadsUnlessMetricsOnlyLink ==
    /\ (action_in_cache /\ ~MetricsOnlyLink) =>
          /\ CallOps \in {<<"fetchFromActionCache">>,
                          <<"fetchFromActionCache", "downloadOutputs">>}
          /\ pc \in {"download", "returned", "thrown", "exited"}
          /\ Returned => /\ Called("downloadOutputs")
                         /\ retval = result.exit_code
                         /\ pc = "exited" => exitCode = result.exit_code
          /\ thrown # "none" =>
                \/ Called("downloadOutputs")
                \/ /\ thrown = "runtime_error"
                   /\ result.exit_code = 0
                   /\ result.output_files = {}
                   /\ products # {}
    /\ (action_in_cache /\ MetricsOnlyLink /\ Returned) =>
          Called("executeAction") \/ Called("execLocally")

\* A hit whose cached result, with exit code 1, was downloaded and returned.
C1_Witness ==
    /\ pc = "exited"
    /\ lookup = "hit"
    /\ action_in_cache
    /\ ~MetricsOnlyLink
    /\ CallOps = <<"fetchFromActionCache", "downloadOutputs">>
    /\ result.exit_code = 1
    /\ exitCode = 1

\* The position of the first call of op in the record of calls, 0 if none.
FirstCall(op) ==
    IF Called(op) THEN CHOOSE i \in 1..Len(calls) :
                           /\ calls[i].op = op
                           /\ \A j \in 1..(i - 1) : calls[j].op # op
    ELSE 0

\* C2: on a cache miss in remote-execution mode, Execute is called only
\* after uploadResources has completed without error; when the upload fails,
\* Execute is never called and the upload's error leaves executeConfigured
\* and decides the exit code.
C2_ExecuteOnlyAfterUpload ==
    (~env.RECC_CACHE_ONLY /\ lookup = "miss") =>
        /\ Called("executeAction") =>
              /\ uploadStatus = "ok"
              /\ FirstCall("uploadResources") # 0
              /\ FirstCall("uploadResources") < FirstCall("executeAction")
        /\ uploadStatus = "failed" =>
              /\ ~Called("executeAction")
              /\ pc \in {"thrown", "exited"}
              /\ thrown \in {"GrpcError", "runtime_error"}
              /\ pc = "exited" => exitCode \in {101, 102}

\* A miss in remote-execution mode where blobs were uploaded and the action
\* was then executed.
C2_Witness ==
    /\ ~env.RECC_CACHE_ONLY
    /\ lookup = "miss"
    /\ casUploads # {}
    /\ CallOps = <<"fetchFromActionCache", "uploadResources", "executeAction">>

\* C3: when no Action was built and RECC_NO_EXECUTE is not set, the
\* orchestrator runs the command locally and returns its exit code; there is
\* no action-cache lookup, no CAS upload and no Execute.
C3_NoActionRunsLocally ==
    (Returned /\ ~actionPtr /\ ~env.RECC_NO_EXECUTE) =>
        /\ CallOps = <<"execLocally">>
        /\ retval = calls[1].rc
        /\ pc = "exited" => exitCode = calls[1].rc
        /\ lookup = "none"
        /\ casUploads = {}
        /\ uploadStatus = "none"

\* The dependency scan failed, the command ran locally and ended with 1,
\* and that is recc's exit code.
C3_Witness ==
    /\ pc = "exited"
    /\ ~actionPtr
    /\ buildError = "subprocess_failed_error"
    /\ calls = <<CallRc("execLocally", 1)>>
    /\ exitCode = 1

\* C4: a lookup that fails with an error other than NOT_FOUND leaves the
\* invocation where a miss leaves it: nothing is thrown, the action counts
\* as not cached, the result is still empty, the Action's digest joins the
\* blobs to upload, and the next step is the local build (cache-only mode
\* without a runner) or the upload.
C4_LookupErrorIsAMiss ==
    [][(pc = "lookup" /\ lookup' \in {"error", "miss"}) =>
          /\ thrown' = "none"
          /\ ~action_in_cache'
          /\ result' = EmptyActionResult
          /\ blobs' = blobs \cup {ActionDigest}
          /\ pc' = IF env.RECC_CACHE_ONLY /\ ~local_runner
                   THEN "localbuild" ELSE "upload"]_vars

\* After a failed lookup the action was uploaded and executed, and recc
\* exited with the action's exit code.
C4_Witness ==
    /\ pc = "exited"
    /\ lookup = "error"
    /\ thrown = "none"
    /\ CallOps = <<"fetchFromActionCache", "uploadResources", "executeAction",
                   "downloadOutputs">>
    /\ exitCode = 0

\* Some subprocess or remote action ran to its end.
SomethingRan == \E i \in 1..Len(calls) : calls[i].rc # -1

\* The exit code of the last command or action that ran to its end.
LastRc ==
    LET last == CHOOSE i \in 1..Len(calls) :
                    /\ calls[i].rc # -1
                    /\ \A j \in (i + 1)..Len(calls) : calls[j].rc = -1
    IN  calls[last].rc

\* C5: recc's exit code follows the class of the error that left
\* executeConfigured: 130 for a gRPC error with status CANCELLED, 102 for any
\* other gRPC error, 100 for an invalid argument, 101 for any other
\* exception; without an error it is the exit code of the action that was
\* executed (remotely or locally) or, failing that, of the cached result.
C5_ExitCodeByErrorClass ==
    pc = "exited" =>
        /\ thrown = "GrpcError_CANCELLED" => exitCode = 130
        /\ thrown = "GrpcError" => exitCode = 102
        /\ thrown = "invalid_argument" => exitCode = 100
        /\ thrown \in {"runtime_error", "logic_error"} => exitCode = 101
        /\ (thrown = "none" /\ SomethingRan) => exitCode = LastRc
        /\ (thrown = "none" /\ ~SomethingRan /\ action_in_cache) =>
              exitCode = result.exit_code

\* The execution was cancelled and recc exited with 130.
C5_Witness ==
    /\ pc = "exited"
    /\ thrown = "GrpcError_CANCELLED"
    /\ Called("executeAction")
    /\ exitCode = 130

\* What kept BuildAction from building the Action was an error of the
\* dependency scan or of the paths.
ScanErrors == {"subprocess_failed_error", "runtime_error", "invalid_argument"}

\* C6, as stated: every non-transport error raised while the Action is
\* built (failed dependency scan, lastNSegments asked for more segments than
\* exist, product outside the root) ends in the local execution of the
\* command and never in an error exit (RECC_NO_EXECUTE not set).
C6_BuildErrorsFallBack ==
    (pc = "exited" /\ ~env.RECC_NO_EXECUTE
       /\ buildError \in ScanErrors \cup {"lastNSegments", "absolute_product"}) =>
        /\ thrown = "none"
        /\ Called("execLocally")

\* C6, amended: an error of the dependency scan (its subprocess fails, or
\* any other exception, an unsupported input suffix included) and an
\* absolute product path end in the local execution of the command, whose
\* exit code recc returns (RECC_NO_EXECUTE not set); the logic_error of
\* lastNSegments (more parent levels needed than the working directory has
\* segments) leaves BuildAction and executeConfigured uncaught: the command
\* is not run and recc exits with 101.
C6_ScanErrorsFallBackPathErrorExits ==
    (pc = "exited" /\ ~env.RECC_NO_EXECUTE) =>
        /\ buildError \in ScanErrors \cup {"absolute_product"} =>
              /\ thrown = "none"
              /\ CallOps = <<"execLocally">>
              /\ exitCode = calls[1].rc
        /\ buildError = "lastNSegments" =>
              /\ thrown = "logic_error"
              /\ calls = <<>>
              /\ exitCode = 101

\* The product ../../a.o needs two levels above /w: recc exited with 101
\* and ran nothing.
C6_Witness ==
    /\ pc = "exited"
    /\ argv = <<S_dotgcc, T_c, T_src, T_o, T_upobj>>
    /\ buildError = "lastNSegments"
    /\ calls = <<>>
    /\ exitCode = 101

\* A local build (by recc itself or by the runner) ended with a non-zero
\* exit code.
FailedBuild(ops) == \E i \in 1..Len(calls) : calls[i].op \in ops /\ calls[i].rc # 0

C10_RemoteArgsHaveSlash ==
    actionPtr => HasSlash(cmd.d_command[1])

(***************************************************************************)
(* Claims about the temporary files of the Download step (specification    *)
(* Spec)                                                                   *)
(***************************************************************************)
\* C17: when the orchestrator has finished, by return or by exception, no
\* temporary stdout or stderr file of the Download step is left on disk.
C17_NoTempFileRemains == pc = "exited" => tempFiles = {}

(***************************************************************************)
(* clangscandeps.cpp: the bulk-scanner dependency cache                    *)
(***************************************************************************)
\* longest bulk-scanner output, in rules
MaxRules == 3

\* std::string::find(ch, pos) with 0-based positions; -1 stands for npos.
Find0(s, ch, pos) ==
    LET hits == {i \in pos..(Len(s) - 1) : s[i + 1] = ch} IN
    IF hits = {} THEN -1 ELSE CHOOSE i \in hits : \A j \in hits : i <= j

\* buildboxcommon::StringUtils::trim
ltrim(s) ==
    LET keep == {i \in 1..Len(s) : ~isspace(s[i])} IN
    IF keep = {} THEN <<>>
    ELSE SubSeq(s, CHOOSE i \in keep : \A j \in keep : i <= j, Len(s))

rtrim(s) ==
    LET keep == {i \in 1..Len(s) : ~isspace(s[i])} IN
    IF keep = {} THEN <<>>
    ELSE SubSeq(s, 1, CHOOSE i \in keep : \A j \in keep : i >= j)

trim(s) == rtrim(ltrim(s))

\* DigestGenerator::make_digest(target).hash(), the name of the per-target
\* file: distinct targets get distinct names.
DigestHash(t) == <<"#">> \o t

\* buildboxcommon::FileUtils::writeFileAtomically into a directory listing
writeFileAtomically(files, path, content) ==
    {f \in files : f.name # path} \cup {[name |-> path, content |-> content]}

\* unlink(path), ENOENT ignored
unlinkFile(files, path) == {f \in files : f.name # path}

isRegularFile(files, path) == \E f \in files : f.name = path

getFileContents(files, path) == (CHOOSE f \in files : f.name = path).content

\* buildboxcommon::FileUtils::createDirectory: an existing directory is kept.
createDirectory(d) == IF d.exists THEN d ELSE [exists |-> TRUE, files |-> {}]

\* The inner loop of split_scan_deps_rules: the size of the rule that starts
\* at rulestart, found by scanning for an unescaped newline from pos.
RECURSIVE ruleSizeFrom(_, _, _)
ruleSizeFrom(text, start, pos) ==
    LET nl == Find0(text, "\n", pos) IN
    IF nl = -1 THEN Len(text) - start
    ELSE IF nl > 0 /\ text[nl] = "\\" THEN ruleSizeFrom(text, start, nl + 1)
    ELSE nl + 1 - start

\* One iteration of the outer loop of split_scan_deps_rules, up to the
\* decision what to do with the rule.
splitRule(text, start) ==
    LET rulesize == ruleSizeFrom(text, start, start)
        rule     == Substr(text, start, rulesize)
        colon    == Find0(rule, ":", 0)
    IN  [rulesize |-> rulesize,
         rule     |-> rule,
         kind     |-> IF colon # -1 THEN "target"
                      ELSE IF trim(rule) # <<>> THEN "error" ELSE "blank",
         target   |-> IF colon # -1 THEN trim(Substr(rule, 0, colon)) ELSE <<>>]

\* A variant of the duplicate branch that leaves the first rule's file.
splitDuplicate_keep(files, path) == files

\* split_scan_deps_rules, a target seen before: remove its file.
splitDuplicate(files, path) == unlinkFile(files, path)

\* split_scan_deps_rules, a rule with a target: the effect on the directory.
splitApply(files, seen, r) ==
    IF r.target \notin seen
    THEN writeFileAtomically(files, DigestHash(r.target), r.rule)
    ELSE splitDuplicate(files, DigestHash(r.target))

\* split_scan_deps_rules from rulestart = start on.
RECURSIVE split_scan_deps_rules(_, _, _, _)
split_scan_deps_rules(text, start, seen, files) ==
    IF start >= Len(text) THEN [thrown |-> FALSE, files |-> files]
    ELSE LET r == splitRule(text, start) IN
         IF r.kind = "error" THEN [thrown |-> TRUE, files |-> files]
         ELSE IF r.kind = "target"
         THEN split_scan_deps_rules(text, start + r.rulesize, seen \cup {r.target},
                                    splitApply(files, seen, r))
         ELSE split_scan_deps_rules(text, start + r.rulesize, seen, files)

\* The directory split_scan_deps_rules is told to write to (its caller in
\* populate_dependencies_directory).
splitDirectory_final == DepsDir

splitDirectory == DepsDirTmp

\* The name of the generated header with the predefined macros.
ScanDepsHeader ==
    <<"r", "e", "c", "c", "-", "s", "c", "a", "n", "-", "d", "e", "p", "s", ".", "h">>

\* The rules a bulk scanner run prints: two spellings of a rule for target a
\* (the second with a continuation line), a rule for target b, a line that is
\* not a rule, an empty line, a rule for target b that lists the generated
\* header, and a rule for target b without dependencies.
RuleKinds == {"A1", "A2", "B", "Z", "E", "H", "N"}

RuleText(k) ==
    CASE k = "A1" -> <<"a", ":", "x", "\n">>
      [] k = "A2" -> <<" ", "a", " ", ":", "\\", "\n", "y", "\n">>
      [] k = "B"  -> <<"b", ":", "x", "\n">>
      [] k = "Z"  -> <<"z", "\n">>
      [] k = "E"  -> <<"\n">>
      [] k = "H"  -> <<"b", ":">> \o ScanDepsHeader \o <<" ", "x", "\n">>
      [] k = "N"  -> <<"b", ":", "\n">>

\* The target the rule is for (<<>>: none).
RuleTarget(k) ==
    CASE k \in {"A1", "A2"}    -> <<"a">>
      [] k \in {"B", "H", "N"} -> <<"b">>
      [] OTHER                 -> <<>>

RECURSIVE ConcatRules(_)
ConcatRules(kinds) ==
    IF kinds = <<>> THEN <<>> ELSE RuleText(Head(kinds)) \o ConcatRules(Tail(kinds))

\* The scanner's standard output; when not newline-terminated the last
\* character is missing.
OutputText(kinds, terminated) ==
    LET text == ConcatRules(kinds) IN
    IF terminated \/ text = <<>> THEN text ELSE SubSeq(text, 1, Len(text) - 1)

ScanKinds == UNION {[1..n -> RuleKinds] : n \in 0..MaxRules}

\* longest bulk-scanner output, in rules, when several processes run
MaxScanRules == 2

\* The rules whose dependencies play no part in the locking are left out.
ConcurrentScanKinds ==
    UNION {[1..n -> RuleKinds \ {"H", "N"}] : n \in 0..MaxScanRules}

\* How often target t occurs in the scanner's output.
Occurrences(kinds, t) == Cardinality({i \in 1..Len(kinds) : RuleTarget(kinds[i]) = t})

Targets == {<<"a">>, <<"b">>}

(***************************************************************************)
(* get_dependencies_directory, run by every recc process of the build      *)
(***************************************************************************)
DepsFrame == UNCHANGED <<parseVars, execVars, infoVars, makeVars, tempFiles, lateVars>>

DGoto(p, label) == dpc' = [dpc EXCEPT ![p] = label]

\* A variant of lockf that returns at once, whoever holds the lock.
lockfBlocks_never(holder, fd) == FALSE

\* lockf(lockfd, F_LOCK, 0) blocks while another process holds the lock on
\* the same file.
lockfBlocks(holder, fd) == holder[fd] # 0

\* A variant of the lockfd local that leaks the descriptor.
closeLockfd_leak(holder, fd, p) == holder

\* The destructor of the FileDescriptor lockfd: closing the descriptor drops
\* the lock the process holds on that file.
closeLockfd(holder, fd, p) ==
    [i \in Inodes |-> IF i = fd /\ holder[i] = p THEN 0 ELSE holder[i]]

\* A variant of the second look that populates whatever it sees.
directoryWritten_ignored(d) == FALSE

\* FileUtils::isDirectory(depsdir): the directory was written by another
\* recc process.
directoryWritten(d) == d[DepsDir].exists

\* A variant of the handler that leaves no directory behind.
onPopulateFailure_nothing(d) == d

\* The catch clause of get_dependencies_directory: create an empty
\* dependencies directory.
onPopulateFailure(d) == [d EXCEPT ![DepsDir] = createDirectory(@)]

\* dpc = "start": the first look at depsdir.
CheckDirectory(p) ==
    /\ dpc[p] = "start"
    /\ DGoto(p, IF directoryWritten(dirs) THEN "returned" ELSE "open")
    /\ UNCHANGED <<dirs, lockName, lockHolder, inodes, lockfd, rules, rulestart,
                   targets, scanKinds, scans, failedProc>>
    /\ DepsFrame

\* openat(topbuilddirfd, "recc-scan-deps.d.lock", O_CREAT | O_RDWR)
OpenLock(p) ==
    /\ dpc[p] = "open"
    /\ IF lockName = 0
       THEN /\ inodes' = inodes + 1
            /\ lockName' = inodes + 1
       ELSE UNCHANGED <<inodes, lockName>>
    /\ lockfd' = [lockfd EXCEPT ![p] = lockName']
    /\ DGoto(p, "lockf")
    /\ UNCHANGED <<dirs, lockHolder, rules, rulestart, targets, scanKinds,
                   scans, failedProc>>
    /\ DepsFrame

\* lockf(lockfd, F_LOCK, 0) returns.
Lockf(p) ==
    /\ dpc[p] = "lockf"
    /\ ~lockfBlocks(lockHolder, lockfd[p])
    /\ lockHolder' = [lockHolder EXCEPT ![lockfd[p]] = p]
    /\ DGoto(p, "locked")
    /\ UNCHANGED <<dirs, lockName, inodes, lockfd, rules, rulestart, targets,
                   scanKinds, scans, failedProc>>
    /\ DepsFrame

\* The second look at depsdir, with the lock held.
Recheck(p) ==
    /\ dpc[p] = "locked"
    /\ IF directoryWritten(dirs)
       THEN /\ lockHolder' = closeLockfd(lockHolder, lockfd[p], p)
            /\ DGoto(p, "returned")
       ELSE /\ DGoto(p, "populate")
            /\ UNCHANGED lockHolder
    /\ UNCHANGED <<dirs, lockName, inodes, lockfd, rules, rulestart, targets,
                   scanKinds, scans, failedProc>>
    /\ DepsFrame

\* populate_dependencies_directory up to the call of split_scan_deps_rules.
\* Reading the compilation database throws a json exception (which is not a
\* runtime_error) or a runtime_error; the compiler probe and the bulk scanner
\* throw subprocess_failed_error, a runtime_error, when they exit non-zero.
RunScanner(p) ==
    /\ dpc[p] = "populate"
    /\ \/ /\ lockHolder' = closeLockfd(lockHolder, lockfd[p], p)
          /\ DGoto(p, "propagated")
          /\ UNCHANGED <<dirs, rules, rulestart, targets, scanKinds, scans,
                         failedProc>>
       \/ /\ DGoto(p, "catch")
          /\ UNCHANGED <<dirs, lockHolder, rules, rulestart, targets, scanKinds,
                         scans, failedProc>>
       \/ /\ scans' = scans + 1
          /\ failedProc' = p
          /\ DGoto(p, "catch")
          /\ UNCHANGED <<dirs, lockHolder, rules, rulestart, targets, scanKinds>>
       \/ \E kinds \in ConcurrentScanKinds, terminated \in BOOLEAN :
             /\ scans' = scans + 1
             /\ scanKinds' = [scanKinds EXCEPT ![p] = kinds]
             /\ rules' = [rules EXCEPT ![p] = OutputText(kinds, terminated)]
             /\ rulestart' = [rulestart EXCEPT ![p] = 0]
             /\ targets' = [targets EXCEPT ![p] = {}]
             /\ dirs' = [dirs EXCEPT ![DepsDirTmp] = createDirectory(@)]
             /\ DGoto(p, "split")
             /\ UNCHANGED <<lockHolder, failedProc>>
    /\ UNCHANGED <<lockName, inodes, lockfd>>
    /\ DepsFrame

\* splitRule, tabulated over the scanner outputs and the rule starts in them.
splitRuleAt ==
    [text \in {OutputText(kinds, terminated) :
                  kinds \in ConcurrentScanKinds, terminated \in BOOLEAN} |->
        [start \in 0..(Len(text) - 1) |-> splitRule(text, start)]]

\* The rule the process is about to split off.
nextRule(p) == splitRuleAt[rules[p]][rulestart[p]]

\* One iteration of the outer loop of split_scan_deps_rules: a rule with a
\* target is written or removed, an empty one is skipped, anything else
\* throws a runtime_error.
SplitRule(p) ==
    /\ dpc[p] = "split"
    /\ rulestart[p] < Len(rules[p])
    /\ DGoto(p, IF nextRule(p).kind = "error" THEN "catch" ELSE "split")
    /\ rulestart' = [rulestart EXCEPT ![p] =
                        IF nextRule(p).kind = "error" THEN @
                        ELSE @ + nextRule(p).rulesize]
    /\ targets' = [targets EXCEPT ![p] =
                      IF nextRule(p).kind = "target"
                      THEN @ \cup {nextRule(p).target} ELSE @]
    /\ dirs' = [dirs EXCEPT ![splitDirectory].files =
                   IF nextRule(p).kind = "target"
                   THEN splitApply(@, targets[p], nextRule(p)) ELSE @]
    /\ UNCHANGED <<lockName, lockHolder, inodes, lockfd, rules, scanKinds, scans,
                   failedProc>>
    /\ DepsFrame

\* rename(depsdir + ".tmp", depsdir); it fails when depsdir is a directory
\* that is not empty.
Rename(p) ==
    /\ dpc[p] = "split"
    /\ rulestart[p] >= Len(rules[p])
    /\ IF dirs[DepsDir].exists /\ dirs[DepsDir].files # {}
       THEN /\ DGoto(p, "catch")
            /\ UNCHANGED dirs
       ELSE /\ dirs' = [dirs EXCEPT ![DepsDir] = dirs[DepsDirTmp],
                                    ![DepsDirTmp] = AbsentDir]
            /\ DGoto(p, "success")
    /\ UNCHANGED <<lockName, lockHolder, inodes, lockfd, rules, rulestart,
                   targets, scanKinds, scans, failedProc>>
    /\ DepsFrame

\* catch (const std::runtime_error &): createDirectory(depsdir)
CreateEmptyDirectory(p) ==
    /\ dpc[p] = "catch"
    /\ dirs' = onPopulateFailure(dirs)
    /\ DGoto(p, "catch_unlink")
    /\ UNCHANGED <<lockName, lockHolder, inodes, lockfd, rules, rulestart,
                   targets, scanKinds, scans, failedProc>>
    /\ DepsFrame

\* unlinkat(topbuilddirfd, "recc-scan-deps.d.lock", 0), in the handler and
\* after a successful population.
UnlinkLock(p) ==
    /\ dpc[p] \in {"catch_unlink", "success"}
    /\ lockName' = 0
    /\ DGoto(p, IF dpc[p] = "success" THEN "return" ELSE "rethrow")
    /\ UNCHANGED <<dirs, lockHolder, inodes, lockfd, rules, rulestart, targets,
                   scanKinds, scans, failedProc>>
    /\ DepsFrame

\* return depsdir, or throw: get_dependencies_directory is left and lockfd
\* goes out of scope.
Leave(p) ==
    /\ dpc[p] \in {"return", "rethrow"}
    /\ lockHolder' = closeLockfd(lockHolder, lockfd[p], p)
    /\ DGoto(p, IF dpc[p] = "return" THEN "returned" ELSE "thrown")
    /\ UNCHANGED <<dirs, lockName, inodes, lockfd, rules, rulestart, targets,
                   scanKinds, scans, failedProc>>
    /\ DepsFrame

InitDeps ==
    /\ argv = <<>>
    /\ cmd = EmptyParsedCommand
    /\ parsePc = "idle"
    /\ ExecIdle
    /\ dirs = [d \in DirNames |-> AbsentDir]
    /\ lockName = 0
    /\ lockHolder = [i \in Inodes |-> 0]
    /\ inodes = 0
    /\ dpc = [p \in Procs |-> "start"]
    /\ lockfd = [p \in Procs |-> 0]
    /\ rules = [p \in Procs |-> <<>>]
    /\ rulestart = [p \in Procs |-> 0]
    /\ targets = [p \in Procs |-> {}]
    /\ scanKinds = [p \in Procs |-> <<>>]
    /\ scans = 0
    /\ failedProc = 0
    /\ InfoIdle
    /\ MakeIdle
    /\ tempFiles = {}
    /\ LateIdle

ProcStep(p) ==
    \/ CheckDirectory(p)
    \/ OpenLock(p)
    \/ Lockf(p)
    \/ Recheck(p)
    \/ RunScanner(p)
    \/ SplitRule(p)
    \/ Rename(p)
    \/ CreateEmptyDirectory(p)
    \/ UnlinkLock(p)
    \/ Leave(p)

NextDeps == \E p \in Procs : ProcStep(p)

SpecDeps == InitDeps /\ [][NextDeps]_vars

\* As long as some process can take a step, some process does: a process
\* that is not blocked in lockf runs on, and the subprocesses it waits for
\* terminate.
SpecDepsFair == InitDeps /\ [][NextDeps]_vars /\ WF_vars(NextDeps)

(***************************************************************************)
(* Claims about the dependency cache (specifications SpecDeps and          *)
(* SpecDepsFair)                                                           *)
(***************************************************************************)
\* The process is inside populate_dependencies_directory.
Populating(p) == dpc[p] \in {"populate", "split"}

\* The process has left get_dependencies_directory.
Left(p) == dpc[p] \in {"returned", "thrown", "propagated"}

HoldsLock(p) == \E i \in Inodes : lockHolder[i] = p

\* The names of the per-target files a complete split of the output leaves.
CompleteFiles(kinds) ==
    {DigestHash(t) : t \in {u \in Targets : Occurrences(kinds, u) = 1}}

FileNames(files) == {f.name : f \in files}

\* C13: for one build directory the population of the dependency directory
\* by the bulk scanner is run by at most one recc process at a time; a
\* process populates only with the lock held and the directory missing, so a
\* process that obtains the lock after the directory has appeared does not
\* populate it again.
C13_OnePopulatorAtATime ==
    /\ Cardinality({p \in Procs : Populating(p)}) <= 1
    /\ \A p \in Procs :
          Populating(p) =>
             /\ ~dirs[DepsDir].exists
             /\ lockfd[p] # 0
             /\ lockHolder[lockfd[p]] = p
    /\ scans <= 1

\* Two processes found the directory missing and went through the lock, on
\* two different lock files; the scanner ran once and both returned.
C13_Witness ==
    \E p, q \in Procs :
       /\ p # q
       /\ dpc[p] = "returned" /\ dpc[q] = "returned"
       /\ lockfd[p] # 0 /\ lockfd[q] # 0 /\ lockfd[p] # lockfd[q]
       /\ scans = 1
       /\ dirs[DepsDir].exists

\* C14: once the bulk scanner has failed and the failure has been handled,
\* the dependency directory exists and is empty; no other process is
\* populating and the bulk scanner is never run a second time.
C14_FailedScanLeavesEmptyDirectory ==
    failedProc # 0 =>
       /\ scans = 1
       /\ dpc[failedProc] # "catch" =>
             dirs[DepsDir] = [exists |-> TRUE, files |-> {}]
       /\ \A p \in Procs : p # failedProc => ~Populating(p)

\* The scanner failed for one process; another went through the lock, found
\* the empty directory and returned, and a third returned at the first look.
C14_Witness ==
    /\ failedProc # 0
    /\ dpc[failedProc] = "thrown"
    /\ \E p, q \in Procs :
          /\ p # failedProc /\ q # failedProc
          /\ dpc[p] = "returned" /\ lockfd[p] # 0
          /\ dpc[q] = "returned" /\ lockfd[q] = 0
    /\ dirs[DepsDir].files = {}

\* C18: the dependency directory is absent, empty or completely populated:
\* once it exists its contents never change, and it comes into existence
\* either empty or through the rename of <depsdir>.tmp by a process that has
\* split the whole scanner output, holding a file for exactly the targets
\* that output names once.
C18_DirectoryAppearsWhole ==
    [][/\ dirs[DepsDir].exists => dirs'[DepsDir] = dirs[DepsDir]
       /\ ~dirs'[DepsDir].exists => dirs'[DepsDir].files = {}
       /\ (~dirs[DepsDir].exists /\ dirs'[DepsDir].exists) =>
             \/ dirs'[DepsDir].files = {}
             \/ \E p \in Procs :
                   /\ dpc[p] = "split"
                   /\ rulestart[p] >= Len(rules[p])
                   /\ dirs'[DepsDir].files = dirs[DepsDirTmp].files
                   /\ FileNames(dirs'[DepsDir].files) = CompleteFiles(scanKinds[p])]_vars

\* The directory holds the files of both targets while another process is
\* still waiting for the lock.
C18_Witness ==
    /\ FileNames(dirs[DepsDir].files) = {DigestHash(t) : t \in Targets}
    /\ ~dirs[DepsDirTmp].exists
    /\ \E p \in Procs : dpc[p] = "lockf"

\* C19: a process that has left get_dependencies_directory, by return or by
\* exception, after a successful or a failed population, holds no lock; and
\* every process blocked on the lock eventually acquires it and leaves.
C19_LockReleasedOnEveryPath ==
    /\ [](\A p \in Procs : Left(p) => ~HoldsLock(p))
    /\ \A p \in Procs : (dpc[p] = "lockf") ~> Left(p)

\* A population failed and its process left with an exception; a process
\* that was waiting on the same lock file acquired it afterwards and
\* returned, and nobody holds a lock.
C19_Witness ==
    \E p, q \in Procs :
       /\ p # q
       /\ dpc[p] = "thrown"
       /\ dpc[q] = "returned"
       /\ lockfd[p] # 0 /\ lockfd[q] = lockfd[p]
       /\ \A r \in Procs : ~HoldsLock(r)


(***************************************************************************)
(* deps.cpp: Deps::dependencies_from_make_rules                            *)
(***************************************************************************)
\* most dependencies of the rule that is parsed
MaxDeps == 3

\* The locals of dependencies_from_make_rules before the loop.
MakeRulesStart ==
    [result |-> {}, saw_colon_on_line |-> FALSE, saw_backslash |-> FALSE,
     current_filename |-> <<>>]

\* result.insert(current_filename) unless it is empty; current_filename.clear()
makeRulesFlush(st) ==
    [st EXCEPT !.result = IF st.current_filename # <<>>
                          THEN @ \cup {st.current_filename} ELSE @,
               !.current_filename = <<>>]

\* The body of the loop over the characters of the rules.
makeRulesChar(st, character, is_sun_format) ==
    IF st.saw_backslash
    THEN [st EXCEPT !.saw_backslash = FALSE,
                    !.current_filename =
                        IF character # "\n" /\ st.saw_colon_on_line
                        THEN Append(@, character) ELSE @]
    ELSE IF character = "\\" THEN [st EXCEPT !.saw_backslash = TRUE]
    ELSE IF character = ":" /\ ~st.saw_colon_on_line
    THEN [st EXCEPT !.saw_colon_on_line = TRUE]
    ELSE IF character = "\n"
    THEN [makeRulesFlush(st) EXCEPT !.saw_colon_on_line = FALSE]
    ELSE IF character = " "
    THEN IF is_sun_format
         THEN [st EXCEPT !.current_filename =
                             IF @ # <<>> /\ st.saw_colon_on_line
                             THEN Append(@, character) ELSE @]
         ELSE makeRulesFlush(st)
    ELSE IF st.saw_colon_on_line
    THEN [st EXCEPT !.current_filename = Append(@, character)]
    ELSE st

RECURSIVE makeRulesLoop(_, _, _, _)
makeRulesLoop(rules_, i, st, is_sun_format) ==
    IF i > Len(rules_) THEN st
    ELSE makeRulesLoop(rules_, i + 1, makeRulesChar(st, rules_[i], is_sun_format),
                       is_sun_format)

dependencies_from_make_rules(rules_, is_sun_format) ==
    makeRulesFlush(makeRulesLoop(rules_, 1, MakeRulesStart, is_sun_format)).result

\* What may stand between two dependencies of a rule: a blank, two blanks, a
\* tab, a continuation line with blanks around it, a bare continuation line.
Separators ==
    {<<" ">>, <<" ", " ">>, <<"\t">>, <<" ", "\\", "\n", " ">>, <<"\\", "\n">>}

DepNames == {<<"x">>, <<"y", ".", "h">>}

RECURSIVE JoinDeps(_, _)
JoinDeps(deps, seps) ==
    IF Len(deps) = 1 THEN deps[1]
    ELSE deps[1] \o seps[1] \o JoinDeps(Tail(deps), Tail(seps))

\* The rule "t: <dependencies>" with the given separators, newline-terminated.
MakeRule(deps, seps) == <<"t", ":", " ">> \o JoinDeps(deps, seps) \o <<"\n">>

\* The same rule as the compiler prints it on one line.
CanonicalRule(deps) == MakeRule(deps, [i \in 1..(Len(deps) - 1) |-> <<" ">>])

InitMake ==
    /\ argv = <<>>
    /\ cmd = EmptyParsedCommand
    /\ parsePc = "idle"
    /\ ExecIdle
    /\ DepsIdle
    /\ InfoIdle
    /\ \E n \in 1..MaxDeps :
          /\ makeDeps \in [1..n -> DepNames]
          /\ makeSeps \in [1..(n - 1) -> Separators]
    /\ makeResult = NoMakeResult
    /\ tempFiles = {}
    /\ LateIdle

\* dependencies_from_make_rules(rules, false) for the rule as printed and for
\* the rule reformatted.
MakeParse ==
    /\ ~makeResult.done
    /\ makeResult' =
          [done        |-> TRUE,
           canonical   |-> dependencies_from_make_rules(CanonicalRule(makeDeps), FALSE),
           reformatted |-> dependencies_from_make_rules(MakeRule(makeDeps, makeSeps),
                                                       FALSE)]
    /\ UNCHANGED <<parseVars, execVars, depsVars, infoVars, makeDeps, makeSeps, tempFiles,
                   lateVars>>

NextMake == MakeParse

SpecMake == InitMake /\ [][NextMake]_vars

(***************************************************************************)
(* Claims about the parsing of make rules (specification SpecMake)         *)
(***************************************************************************)
\* C16: the dependency set parsed from a GNU make rule is the same when the
\* rule is reformatted with other whitespace or with backslash-newline
\* continuations between its dependencies.
C16_ReformattingKeepsDependencies ==
    makeResult.done => makeResult.reformatted = makeResult.canonical


(***************************************************************************)
(* clangscandeps.cpp and deps.cpp: the dependencies of one target          *)
(***************************************************************************)
\* latest modification time on disk
MaxTime == 1

\* std::string::find(needle) != npos
Contains(s, needle) ==
    \E i \in 1..(Len(s) - Len(needle) + 1) : SubSeq(s, i, i + Len(needle) - 1) = needle

\* The characters of the dependency names, in the order of their codes.
AsciiOrder == <<"-", ".", "a", "c", "d", "e", "h", "n", "p", "r", "s", "x", "y", "z">>

CharRank(ch) == CHOOSE i \in 1..Len(AsciiOrder) : AsciiOrder[i] = ch

\* std::less<std::string>
RECURSIVE StrLess(_, _)
StrLess(a, b) ==
    IF b = <<>> THEN FALSE
    ELSE IF a = <<>> THEN TRUE
    ELSE IF Head(a) = Head(b) THEN StrLess(Tail(a), Tail(b))
    ELSE CharRank(Head(a)) < CharRank(Head(b))

\* The elements of a std::set<std::string> in the order a range-for visits them.
RECURSIVE InOrder(_)
InOrder(S) ==
    IF S = {} THEN <<>>
    ELSE LET first == CHOOSE a \in S : \A b \in S \ {a} : StrLess(a, b)
         IN  <<first>> \o InOrder(S \ {first})

\* The dependency files the cached rules can name, and what the disk holds
\* for each of them.
CachedDepNames == {<<"x">>, <<"y">>}

FileStates ==
    {[exists |-> FALSE, mtime |-> 0]} \cup
    {[exists |-> TRUE, mtime |-> t] : t \in 0..MaxTime}

\* FileUtils::isRegularFile(dep)
isRegularDep(files, dep) == dep \in DOMAIN files /\ files[dep].exists

\* A variant of the mtime comparison that never finds a file modified.
modifiedAfter_never(files, dep, timestamp) == FALSE

\* getFileMtime(dep) > depsTimestamp
modifiedAfter(files, dep, timestamp) == files[dep].mtime > timestamp

\* The loop of dependencies_for_target over rawDependencies: the generated
\* header is skipped, every other dependency is inserted into the result and
\* then checked.
RECURSIVE checkDependencies(_, _, _, _)
checkDependencies(deps, result_, files, timestamp) ==
    IF deps = <<>> THEN [rejected |-> FALSE, result |-> result_]
    ELSE LET dep == Head(deps) IN
         IF Contains(dep, ScanDepsHeader)
         THEN checkDependencies(Tail(deps), result_, files, timestamp)
         ELSE IF ~isRegularDep(files, dep)
         THEN [rejected |-> TRUE, result |-> result_ \cup {dep}]
         ELSE IF modifiedAfter(files, dep, timestamp)
         THEN [rejected |-> TRUE, result |-> result_ \cup {dep}]
         ELSE checkDependencies(Tail(deps), result_ \cup {dep}, files, timestamp)

\* ClangScanDeps::dependencies_for_target once the dependency directory
\* exists: ok is the value returned, result what *result holds.
dependencies_for_target(dir, t, files, timestamp) ==
    IF isRegularFile(dir.files, DigestHash(t))
    THEN LET checked ==
                 checkDependencies(
                     InOrder(dependencies_from_make_rules(
                                 getFileContents(dir.files, DigestHash(t)), FALSE)),
                     {}, files, timestamp)
         IN  [ok     |-> ~checked.rejected /\ checked.result # {},
              result |-> checked.result]
    ELSE [ok |-> FALSE, result |-> {}]

\* What the dependencies command of the invocation prints for the target.
DependenciesCommandOutput(t) == t \o <<":", " ", "z", "\n">>

InitInfo ==
    /\ argv = <<>>
    /\ cmd = EmptyParsedCommand
    /\ parsePc = "idle"
    /\ ExecIdle
    /\ DepsIdle
    /\ MakeIdle
    /\ tempFiles = {}
    /\ LateIdle
    /\ depFiles = <<>>
    /\ depsTimestamp = 0
    /\ scanOutput = <<>>
    /\ target \in Targets
    /\ fileInfo = [EmptyFileInfo EXCEPT !.pc = "start"]

InfoFrame == UNCHANGED <<parseVars, execVars, makeVars, tempFiles, lateVars, lockName,
                         lockHolder, inodes, dpc, lockfd, rulestart, targets>>

\* The first recc process of the build directory populates the dependency
\* directory: populate_dependencies_directory and the handler of its failure.
Populate ==
    /\ fileInfo.pc = "start"
    /\ fileInfo' = [fileInfo EXCEPT !.pc = "populated"]
    /\ scans' = scans + 1
    /\ \/ /\ failedProc' = 1
          /\ dirs' = [dirs EXCEPT ![DepsDir] = onPopulateFailure(@)]
          /\ UNCHANGED <<rules, scanKinds>>
       \/ \E kinds \in ScanKinds, terminated \in BOOLEAN :
             LET text  == OutputText(kinds, terminated)
                 split == split_scan_deps_rules(text, 0, {}, {})
             IN  /\ scanKinds' = [scanKinds EXCEPT ![1] = kinds]
                 /\ rules' = [rules EXCEPT ![1] = text]
                 /\ failedProc' = 0
                 /\ dirs' = IF split.thrown
                            THEN [dirs EXCEPT
                                    ![splitDirectory] = [exists |-> TRUE,
                                                         files |-> split.files],
                                    ![DepsDir] = onPopulateFailure(@)]
                            ELSE [dirs EXCEPT
                                    ![DepsDir] = [exists |-> TRUE,
                                                  files |-> split.files]]
    /\ UNCHANGED <<depFiles, target, scanOutput, depsTimestamp>>
    /\ InfoFrame

\* Deps::get_file_info of a later invocation, up to the return of
\* dependencies_for_target, with the disk as it is by then.
Lookup ==
    /\ fileInfo.pc = "populated"
    /\ \E files \in [CachedDepNames -> FileStates], timestamp \in 0..MaxTime :
          LET found == dependencies_for_target(dirs[DepsDir], target, files, timestamp)
          IN  /\ depFiles' = files
              /\ depsTimestamp' = timestamp
              /\ fileInfo' = [pc             |-> IF found.ok THEN "done" ELSE "scan",
                              d_dependencies |-> found.result,
                              cached         |-> found.ok]
    /\ UNCHANGED <<target, scanOutput, dirs, rules, scanKinds, scans, failedProc>>
    /\ InfoFrame

\* Deps::get_file_info after dependencies_for_target returned false: the
\* dependencies command is run and its output parsed.
ScanTarget ==
    /\ fileInfo.pc = "scan"
    /\ \/ /\ fileInfo' = [fileInfo EXCEPT !.pc = "thrown"]
          /\ UNCHANGED scanOutput
       \/ /\ scanOutput' = DependenciesCommandOutput(target)
          /\ fileInfo' = [fileInfo EXCEPT
                            !.pc = "done",
                            !.d_dependencies =
                               dependencies_from_make_rules(scanOutput', FALSE)]
    /\ UNCHANGED <<depFiles, target, depsTimestamp, dirs, rules, scanKinds, scans,
                   failedProc>>
    /\ InfoFrame

NextInfo == Populate \/ Lookup \/ ScanTarget

SpecInfo == InitInfo /\ [][NextInfo]_vars


(***************************************************************************)
(* Claims about the dependencies of one target (specification SpecInfo)    *)
(***************************************************************************)
\* dependencies_for_target has returned.
LookedUp == fileInfo.pc \in {"done", "scan", "thrown"}

HasCachedList(t) == isRegularFile(dirs[DepsDir].files, DigestHash(t))

\* The dependencies the per-target file of t lists.
Listed(t) ==
    IF HasCachedList(t)
    THEN dependencies_from_make_rules(getFileContents(dirs[DepsDir].files,
                                                      DigestHash(t)), FALSE)
    ELSE {}

\* The listed dependencies other than the generated header.
Checked(t) == {d \in Listed(t) : ~Contains(d, ScanDepsHeader)}

\* The dependency exists and is not newer than the dependency directory.
StillValid(d) ==
    /\ d \in DOMAIN depFiles
    /\ depFiles[d].exists
    /\ depFiles[d].mtime <= depsTimestamp

\* The dependencies are those the dependencies command of the invocation
\* printed.
FromInvocationScan == fileInfo.d_dependencies = {<<"z">>}

\* C15 as stated: the cached list is used only if every dependency it lists
\* exists and is not newer than the dependency directory; when one of them is
\* missing or newer the list is rejected and the dependencies come from the
\* per-invocation scan.
C15_UsedOnlyIfEveryListedDependencyValid ==
    LookedUp =>
       /\ fileInfo.cached => \A d \in Listed(target) : StillValid(d)
       /\ (\E d \in Listed(target) : ~StillValid(d)) =>
             /\ ~fileInfo.cached
             /\ fileInfo.pc = "done" => FromInvocationScan

\* C15, amended: the cached list is used exactly when, the generated header
\* left aside, it names at least one dependency and every one it names
\* exists and is not newer than the dependency directory; then the
\* dependencies are the ones it names without the header, otherwise they
\* come from the per-invocation scan.
C15_UsedIffCheckedDependenciesValid ==
    LookedUp =>
       /\ fileInfo.cached <=>
             /\ Checked(target) # {}
             /\ \A d \in Checked(target) : StillValid(d)
       /\ fileInfo.cached => fileInfo.d_dependencies = Checked(target)
       /\ (~fileInfo.cached /\ fileInfo.pc = "done") => FromInvocationScan

\* A cached list was rejected because a dependency it names is newer than the
\* dependency directory, and the dependencies came from the invocation's scan.
C15_Witness ==
    /\ fileInfo.pc = "done"
    /\ ~fileInfo.cached
    /\ \E d \in Checked(target) : depFiles[d].exists /\ depFiles[d].mtime > depsTimestamp
    /\ FromInvocationScan

\* The bulk scanner ran and all of its output was split.
SplitCompleted ==
    /\ fileInfo.pc # "start"
    /\ failedProc = 0
    /\ ~dirs[DepsDirTmp].exists

\* C20: after the split of the bulk scanner's output a target has a
\* per-target file if and only if it occurred exactly once in the output; a
\* lookup for a target that occurred more often finds no cached list and
\* falls back to the per-invocation scan.
C20_FileIffTargetOccursOnce ==
    SplitCompleted =>
       /\ \A t \in Targets : HasCachedList(t) <=> Occurrences(scanKinds[1], t) = 1
       /\ (LookedUp /\ Occurrences(scanKinds[1], target) >= 2) =>
             /\ ~fileInfo.cached
             /\ fileInfo.pc = "done" => FromInvocationScan

\* The target occurred twice and has no file, the other target occurred once
\* and has one, and the lookup for the first fell back to the scan.
C20_Witness ==
    /\ SplitCompleted
    /\ Occurrences(scanKinds[1], target) = 2
    /\ ~HasCachedList(target)
    /\ \E t \in Targets : t # target /\ HasCachedList(t)
    /\ fileInfo.pc = "done"
    /\ FromInvocationScan


(***************************************************************************)
(* fileutils.cpp: hasPathPrefix and lastNSegments on their own             *)
(***************************************************************************)
\* longest path handed to the helpers, in characters
MaxPathLen == 4

\* most segments asked of lastNSegments
MaxSegments == 3

PathChars == {"a", "b", "/"}

Paths == UNION {[1..k -> PathChars] : k \in 0..MaxPathLen}

\* The parser, the orchestrator and the dependency units are idle.
EarlyIdle ==
    /\ argv = <<>>
    /\ cmd = EmptyParsedCommand
    /\ parsePc = "idle"
    /\ ExecIdle
    /\ DepsIdle
    /\ InfoIdle
    /\ MakeIdle
    /\ tempFiles = {}

earlyVars == <<parseVars, execVars, depsVars, infoVars, makeVars, tempFiles>>

InitPath == EarlyIdle /\ LateIdleBut("path") /\ PathIdle

PathFrame == UNCHANGED earlyVars /\ LateFrameBut("path")

\* FileUtils::hasPathPrefix(path, prefix)
CallHasPathPrefix ==
    /\ pathResult.op = "none"
    /\ \E path \in Paths, prefix \in Paths :
          /\ argPath' = path
          /\ argPrefix' = prefix
          /\ pathResult' = [op |-> "hasPathPrefix", tag |-> "ok",
                            val |-> hasPathPrefix(path, prefix)]
    /\ UNCHANGED argN
    /\ PathFrame

\* FileUtils::lastNSegments(path, n); with an empty path and n > 0 the
\* function reads before the start of the string and anything may come of it.
CallLastNSegments ==
    /\ pathResult.op = "none"
    /\ \E path \in Paths, n \in 0..MaxSegments :
          LET r == lastNSegments(path, n) IN
          /\ argPath' = path
          /\ argN' = n
          /\ IF r.tag = "undefined"
             THEN \E outcome \in {"ok", "logic_error", "crashed"} :
                     pathResult' = [op |-> "lastNSegments", tag |-> outcome,
                                    val |-> <<>>]
             ELSE pathResult' = [op |-> "lastNSegments", tag |-> r.tag,
                                 val |-> r.val]
    /\ UNCHANGED argPrefix
    /\ PathFrame

NextPath == CallHasPathPrefix \/ CallLastNSegments

SpecPath == InitPath /\ [][NextPath]_vars

(***************************************************************************)
(* Claims about the path helpers (specification SpecPath)                  *)
(***************************************************************************)
\* s starts with t.
StartsWith(s, t) == Len(s) >= Len(t) /\ SubSeq(s, 1, Len(t)) = t

\* C29 as stated: hasPathPrefix(path, prefix) is true exactly when the path
\* equals the prefix or starts with the prefix followed by a slash, and is
\* false for the empty prefix.
C29_PrefixOrPrefixSlash ==
    pathResult.op = "hasPathPrefix" =>
       pathResult.val =
          /\ argPrefix # <<>>
          /\ \/ argPath = argPrefix
             \/ StartsWith(argPath, argPrefix \o <<"/">>)

\* C29, amended: hasPathPrefix(path, prefix) is true exactly when the prefix
\* is not empty and the path equals it, or starts with it when it ends in a
\* slash, or starts with it followed by a slash when it does not.
C29_PrefixWithOneTrailingSlash ==
    pathResult.op = "hasPathPrefix" =>
       pathResult.val =
          /\ argPrefix # <<>>
          /\ \/ argPath = argPrefix
             \/ /\ argPrefix[Len(argPrefix)] = "/"
                /\ StartsWith(argPath, argPrefix)
             \/ /\ argPrefix[Len(argPrefix)] # "/"
                /\ StartsWith(argPath, argPrefix \o <<"/">>)

\* A prefix that ends in a slash was found to be a prefix of a longer path.
C29_Witness ==
    /\ pathResult.op = "hasPathPrefix"
    /\ pathResult.val = TRUE
    /\ argPrefix = <<"a", "/">>
    /\ argPath = <<"a", "/", "b">>

\* The components of a path: the maximal runs of characters other than the
\* slash, from left to right.
RECURSIVE Components(_)
Components(p) ==
    IF p = <<>> THEN <<>>
    ELSE IF Head(p) = "/" THEN Components(Tail(p))
    ELSE LET stops == {i \in 1..Len(p) : p[i] = "/"}
             len   == IF stops = {} THEN Len(p)
                      ELSE (CHOOSE i \in stops : \A j \in stops : i <= j) - 1
         IN  <<SubSeq(p, 1, len)>> \o Components(SubSeq(p, len + 1, Len(p)))

RECURSIVE JoinWithSlash(_)
JoinWithSlash(comps) ==
    IF comps = <<>> THEN <<>>
    ELSE IF Len(comps) = 1 THEN comps[1]
    ELSE comps[1] \o <<"/">> \o JoinWithSlash(Tail(comps))

\* The last k elements of a sequence.
LastK(q, k) == SubSeq(q, Len(q) - k + 1, Len(q))

\* C30: lastNSegments(path, n) returns the last n components of the path
\* joined by slashes whenever the path has at least n components, and throws
\* exactly when it has fewer.
C30_LastNComponentsOrError ==
    pathResult.op = "lastNSegments" =>
       IF Len(Components(argPath)) >= argN
       THEN /\ pathResult.tag = "ok"
            /\ pathResult.val = JoinWithSlash(LastK(Components(argPath), argN))
       ELSE pathResult.tag = "logic_error"


(***************************************************************************)
(* parsedcommandfactory.cpp: matchCompilerOptions on its own               *)
(***************************************************************************)
\* The longest key, the leading '-' included.
MaxKeyLen == 3

\* The characters of the keys after the leading '-', and those of the tokens.
KeyChars == {"x", "a"}

OptionChars == {"-", "x", "a", "="}

RuleKeys ==
    {<<"-">> \o s : s \in UNION {[1..k -> KeyChars] : k \in 1..(MaxKeyLen - 1)}}

\* The tables: up to three keys.
RuleTables == {{}} \cup {{a, b, c} : a \in RuleKeys, b \in RuleKeys, c \in RuleKeys}

Options == UNION {[1..k -> OptionChars] : k \in 0..(MaxKeyLen + 1)}

\* A table that keeps its keys in ascending order, as a std::map does by
\* default.
RECURSIVE CompilerParseRulesMap_less(_)
CompilerParseRulesMap_less(keys) ==
    IF keys = {} THEN <<>>
    ELSE LET first == CHOOSE a \in keys : \A b \in keys \ {a} : StrLess(a, b)
         IN  <<[key |-> first, rule |-> "handler"]>>
                 \o CompilerParseRulesMap_less(keys \ {first})

\* CompilerParseRulesMap: the entries in the order of std::greater<std::string>.
RECURSIVE CompilerParseRulesMap(_)
CompilerParseRulesMap(keys) ==
    IF keys = {} THEN <<>>
    ELSE LET first == CHOOSE a \in keys : \A b \in keys \ {a} : StrLess(b, a)
         IN  <<[key |-> first, rule |-> "handler"]>>
                 \o CompilerParseRulesMap(keys \ {first})

InitMatch == EarlyIdle /\ LateIdleBut("match") /\ MatchIdle

MatchFrame == UNCHANGED earlyVars /\ LateFrameBut("match")

\* ParseRuleHelper::matchCompilerOptions(option, options)
CallMatchCompilerOptions ==
    /\ ~matchResult.done
    /\ \E keys \in RuleTables, option \in Options :
          LET r == matchCompilerOptions(option, CompilerParseRulesMap(keys)) IN
          /\ matchRules' = keys
          /\ matchToken' = option
          /\ matchResult' = [done |-> TRUE, key |-> r.key, rule |-> r.rule]
    /\ MatchFrame

NextMatch == CallMatchCompilerOptions

SpecMatch == InitMatch /\ [][NextMatch]_vars

\* The token without its "=value" suffix.
TrimValue(option) ==
    IF \E i \in 1..Len(option) : option[i] = "="
    THEN SubSeq(option, 1, (CHOOSE i \in 1..Len(option) :
                               /\ option[i] = "="
                               /\ \A j \in 1..(i - 1) : option[j] # "=") - 1)
    ELSE option

\* The keys of the table that the token starts with.
PrefixKeys == {k \in matchRules : StartsWith(matchToken, k)}

\* C22: when the token without its "=value" suffix is not a key of the table,
\* the rule dispatched is that of the longest key that is a prefix of the
\* token, and no rule is dispatched when no key is a prefix of it.
C22_LongestPrefixKeyWins ==
    (matchResult.done /\ TrimValue(matchToken) \notin matchRules) =>
        IF PrefixKeys = {}
        THEN matchResult.rule = "nullptr"
        ELSE /\ matchResult.rule = "handler"
             /\ matchResult.key \in PrefixKeys
             /\ \A k \in PrefixKeys : Len(k) <= Len(matchResult.key)

\* The token -xax against a table that holds -x and -xa.
C22_Witness ==
    /\ matchResult.done
    /\ {<<"-", "x">>, <<"-", "x", "a">>} \subseteq matchRules
    /\ matchToken = <<"-", "x", "a", "x">>
    /\ matchResult.key = <<"-", "x", "a">>


(***************************************************************************)
(* parsedcommandfactory.cpp: parseCommand on a linker command              *)
(***************************************************************************)
\* The number of arguments after the linker's name.
MaxLdArgs == 5

S_ld == <<"l", "d">>

T_lx == <<"-", "l", "x">>

LdTokens == {K_push_state, K_pop_state, K_Bstatic, K_dy, K_l, T_lx}

LdCommands == UNION {[1..k -> LdTokens] : k \in 0..MaxLdArgs}

\* ParsedCommand parsedCommand(command, workingDirectory) in
\* createParsedLinkerCommand.
InitLd ==
    /\ EarlyIdle
    /\ LateIdleBut("ld")
    /\ \E args \in LdCommands : ldCmd = NewParsedCommand(<<S_ld>> \o args, Cwd)
    /\ ldLog = <<>>

LdFrame == UNCHANGED earlyVars /\ LateFrameBut("ld")

\* One iteration of the loop of parseCommand with LdRules.
ParseLdToken ==
    /\ ldCmd.d_originalCommand # <<>>
    /\ LET currToken == Head(ldCmd.d_originalCommand)
           parsed    == parseCommandStep(ldCmd, LdStateRules, Cwd)
       IN  /\ ldCmd' = parsed
           /\ ldLog' = Append(ldLog,
                  [key    |-> matchCompilerOptions(currToken, LdStateRules).key,
                   before |-> ldCmd.d_bstatic,
                   after  |-> parsed.d_bstatic])
    /\ LdFrame

NextLd == ParseLdToken

SpecLd == InitLd /\ [][NextLd]_vars

\* The number of --push-state not yet popped after the first n iterations.
RECURSIVE OpenPushes(_, _)
OpenPushes(log, n) ==
    IF n = 0 THEN 0
    ELSE LET before == OpenPushes(log, n - 1) IN
         IF log[n].key = K_push_state THEN before + 1
         ELSE IF log[n].key = K_pop_state /\ before > 0 THEN before - 1
         ELSE before

\* The --push-state that the --pop-state of iteration j closes.
MatchingPush(log, j) ==
    CHOOSE i \in 1..(j - 1) :
        /\ log[i].key = K_push_state
        /\ OpenPushes(log, i - 1) = OpenPushes(log, j)
        /\ \A k \in (i + 1)..(j - 1) : OpenPushes(log, k) > OpenPushes(log, j)

\* C23: a --pop-state that closes an earlier --push-state leaves d_bstatic at
\* the value it had when that --push-state was parsed, whatever was parsed in
\* between; pushes and pops nest last-in first-out.
C23_PopRestoresPushedValue ==
    \A j \in 1..Len(ldLog) :
        (ldLog[j].key = K_pop_state /\ OpenPushes(ldLog, j - 1) > 0) =>
            ldLog[j].after = ldLog[MatchingPush(ldLog, j)].before

\* --push-state -Bstatic --push-state -dy --pop-state: the inner state is
\* restored, not the outer one.
C23_Witness ==
    /\ Len(ldLog) = 5
    /\ [i \in 1..5 |-> ldLog[i].key] =
           <<K_push_state, K_Bstatic, K_push_state, K_dy, K_pop_state>>
    /\ ldLog[5].before = FALSE
    /\ ldLog[5].after = TRUE


(***************************************************************************)
(* linkdeps.cpp: the indirect dependencies of a link command               *)
(***************************************************************************)
\* The shared libraries on disk, by normalized path, and the longest queue
\* the direct dependencies leave behind.
MaxLibs == 3

MaxDirectLibs == 2

SharedLibraries == 1..MaxLibs

\* A DT_NEEDED entry that no directory of rpathDirs holds: a name outside
\* SharedLibraries.
NotFound == MaxLibs + 1

\* The queue never grows beyond this: a library is pushed when a library
\* that needs it is inspected.
MaxQueueLen == MaxDirectLibs + MaxLibs * MaxLibs

\* The orders in which the entries of a set can stand in a vector.
Orders(S) ==
    {f \in [1..Cardinality(S) -> S] : \A i, j \in DOMAIN f : i # j => f[i] # f[j]}

\* The state when the loop over sharedLibraryQueue is entered: the queue
\* holds the shared libraries found for the -l options, a library possibly
\* more than once (-lx and -l:libx.so name the same file).
InitLink ==
    /\ EarlyIdle
    /\ LateIdleBut("link")
    /\ neededLibraries \in [SharedLibraries -> SUBSET (SharedLibraries \cup {NotFound})]
    /\ sharedLibraryQueue \in UNION {[1..k -> SharedLibraries] : k \in 0..MaxDirectLibs}
    /\ processedSharedLibraries = {}
    /\ linkDependencies = {}
    /\ inspections = [l \in SharedLibraries |-> 0]
    /\ linkPc = "draining"

LinkFrame == UNCHANGED earlyVars /\ LateFrameBut("link")

\* A variant that takes no library for processed.
alreadyProcessed_never(processed, sharedLibrary) == FALSE

\* !processedSharedLibraries.insert(sharedLibrary).second
alreadyProcessed(processed, sharedLibrary) == sharedLibrary \in processed

\* An iteration that finds the library processed already.
SkipProcessed ==
    /\ linkPc = "draining"
    /\ sharedLibraryQueue # <<>>
    /\ alreadyProcessed(processedSharedLibraries, Head(sharedLibraryQueue))
    /\ sharedLibraryQueue' = Tail(sharedLibraryQueue)
    /\ UNCHANGED <<neededLibraries, processedSharedLibraries, linkDependencies,
                   inspections, linkPc>>
    /\ LinkFrame

\* An iteration that reads the DT_NEEDED entries of the library and finds
\* every one of them.
InspectLibrary ==
    /\ linkPc = "draining"
    /\ sharedLibraryQueue # <<>>
    /\ LET sharedLibrary == Head(sharedLibraryQueue)
           needed        == neededLibraries[sharedLibrary]
       IN  /\ ~alreadyProcessed(processedSharedLibraries, sharedLibrary)
           /\ NotFound \notin needed
           /\ Len(sharedLibraryQueue) - 1 + Cardinality(needed) <= MaxQueueLen
           /\ processedSharedLibraries' = processedSharedLibraries \cup {sharedLibrary}
           /\ inspections' = [inspections EXCEPT ![sharedLibrary] = Min(@ + 1, 2)]
           /\ linkDependencies' = linkDependencies \cup needed
           /\ \E order \in Orders(needed) :
                 sharedLibraryQueue' = Tail(sharedLibraryQueue) \o order
    /\ UNCHANGED <<neededLibraries, linkPc>>
    /\ LinkFrame

\* An iteration that reads the DT_NEEDED entries and does not find one of
\* them: std::runtime_error("Library not found: ...") leaves the function.
LibraryNotFound ==
    /\ linkPc = "draining"
    /\ sharedLibraryQueue # <<>>
    /\ LET sharedLibrary == Head(sharedLibraryQueue)
       IN  /\ ~alreadyProcessed(processedSharedLibraries, sharedLibrary)
           /\ NotFound \in neededLibraries[sharedLibrary]
           /\ processedSharedLibraries' = processedSharedLibraries \cup {sharedLibrary}
           /\ inspections' = [inspections EXCEPT ![sharedLibrary] = Min(@ + 1, 2)]
    /\ sharedLibraryQueue' = <<>>
    /\ linkPc' = "thrown"
    /\ UNCHANGED <<neededLibraries, linkDependencies>>
    /\ LinkFrame

\* The queue is empty: return result.
ReturnFileInfo ==
    /\ linkPc = "draining"
    /\ sharedLibraryQueue = <<>>
    /\ linkPc' = "returned"
    /\ UNCHANGED <<neededLibraries, sharedLibraryQueue, processedSharedLibraries,
                   linkDependencies, inspections>>
    /\ LinkFrame

NextLink == SkipProcessed \/ InspectLibrary \/ LibraryNotFound \/ ReturnFileInfo

SpecLink == InitLink /\ [][NextLink]_vars

\* The loop is sequential code of one thread: it takes its next step.
SpecLinkFair == SpecLink /\ WF_vars(NextLink)

\* C21: the loop that drains the queue of shared libraries ends, by return or
\* by the exception for a library that is not found, whatever the DT_NEEDED
\* entries refer to, cycles included; and no library is read for its DT_NEEDED
\* entries more than once.
C21_QueueDrainTerminates ==
    /\ [](linkPc # "idle" => \A l \in SharedLibraries : inspections[l] <= 1)
    /\ <>(linkPc \in {"idle", "returned", "thrown"})

\* The function returned after it inspected two libraries that need each
\* other.
C21_Witness ==
    /\ linkPc = "returned"
    /\ \E a, b \in SharedLibraries :
          /\ a # b
          /\ b \in neededLibraries[a]
          /\ a \in neededLibraries[b]
          /\ inspections[a] = 1
          /\ inspections[b] = 1


(***************************************************************************)
(* threadutils.h: parallelizeContainerOperations                           *)
(***************************************************************************)
\* if (containerLength < 50 || numThreads == 0): the smallest container
\* that is worked on in parallel.
MinParallelLength == 50

\* The largest container, the largest ordinary RECC_MAX_THREADS, the largest
\* std::thread::hardware_concurrency(), and how many unfinished threads a
\* thread may overtake.
MaxElems == 51

MaxThreads == 3

MaxCores == 2

MaxAhead == 1

\* RECC_MAX_THREADS: negative, zero, small, and larger than the container.
ThreadCounts == ((0 - 2)..MaxThreads) \cup {MaxElems + 1}

\* doWorkInRange(first, last) on the elements first + 1 .. last.
doWorkInRange(h, first, last) ==
    [e \in DOMAIN h |-> IF first < e /\ e <= last THEN h[e] + 1 ELSE h[e]]

\* The call: container and RECC_MAX_THREADS are the caller's.
InitPar ==
    /\ EarlyIdle
    /\ LateIdleBut("par")
    /\ parCall \in [containerLength : 0..MaxElems, RECC_MAX_THREADS : ThreadCounts]
    /\ parMain = [MainIdle EXCEPT !.pc = "called",
                                  !.numThreads = parCall.RECC_MAX_THREADS,
                                  !.end = parCall.containerLength]
    /\ threadObjects = <<>>
    /\ handled = [e \in 1..parCall.containerLength |-> 0]

ParFrame == UNCHANGED earlyVars /\ LateFrameBut("par")

\* The branch that does not parallelize.
WorkSequential ==
    /\ parMain.pc = "called"
    /\ parCall.containerLength < MinParallelLength \/ parMain.numThreads = 0
    /\ handled' = doWorkInRange(handled, parMain.start, parMain.end)
    /\ parMain' = [parMain EXCEPT !.pc = "returned"]
    /\ UNCHANGED <<parCall, threadObjects>>
    /\ ParFrame

\* numThreads after the two adjustments, for hardware_concurrency() = cores.
adjustedNumThreads(numThreads, cores) ==
    LET fromCores == IF numThreads < 0
                     THEN (IF cores # 0 THEN cores ELSE numThreads)
                     ELSE numThreads
    IN  IF fromCores = 0 THEN 1 ELSE fromCores

\* static_cast<unsigned long>(numThreads) of a negative int is larger than
\* max_size() of the vector, with a long of 32 bits as well as of 64 bits.
reserveThrows(numThreads) == numThreads < 0

\* The else branch up to threadObjects.reserve(), which returns.
PrepareThreads ==
    /\ parMain.pc = "called"
    /\ ~(parCall.containerLength < MinParallelLength \/ parMain.numThreads = 0)
    /\ \E cores \in 0..MaxCores :
          LET numThreads == adjustedNumThreads(parMain.numThreads, cores) IN
          /\ ~reserveThrows(numThreads)
          /\ parMain' = [parMain EXCEPT
                !.pc = "partition",
                !.numThreads = numThreads,
                !.numItemsPerPartition = parCall.containerLength \div numThreads,
                !.end = parMain.start]
    /\ UNCHANGED <<parCall, threadObjects, handled>>
    /\ ParFrame

\* The else branch up to threadObjects.reserve(), which throws
\* std::length_error outside the try block.
ReserveThrows ==
    /\ parMain.pc = "called"
    /\ ~(parCall.containerLength < MinParallelLength \/ parMain.numThreads = 0)
    /\ \E cores \in 0..MaxCores :
          LET numThreads == adjustedNumThreads(parMain.numThreads, cores) IN
          /\ reserveThrows(numThreads)
          /\ parMain' = [parMain EXCEPT !.pc = "threw", !.numThreads = numThreads,
                                        !.end = parMain.start]
    /\ UNCHANGED <<parCall, threadObjects, handled>>
    /\ ParFrame

\* An iteration of the for loop that starts a thread.
StartThread ==
    /\ parMain.pc = "partition"
    /\ parMain.partition < parMain.numThreads - 1
    /\ LET end == parMain.end + parMain.numItemsPerPartition IN
       /\ threadObjects' = Append(threadObjects,
              [first |-> parMain.start, last |-> end, finished |-> FALSE])
       /\ parMain' = [parMain EXCEPT !.end = end, !.start = end,
                                     !.partition = @ + 1]
    /\ UNCHANGED <<parCall, handled>>
    /\ ParFrame

\* The last iteration: the calling thread works on the rest of the container
\* and the loop is left.
WorkLastPartition ==
    /\ parMain.pc = "partition"
    /\ parMain.partition = parMain.numThreads - 1
    /\ handled' = doWorkInRange(handled, parMain.start, parCall.containerLength)
    /\ parMain' = [parMain EXCEPT !.end = parCall.containerLength,
                                  !.partition = @ + 1, !.pc = "join"]
    /\ UNCHANGED <<parCall, threadObjects>>
    /\ ParFrame

\* The threads doWorkInRange has not returned in, before thread t.
UnfinishedBefore(t) == {u \in 1..(t - 1) : ~threadObjects[u].finished}

\* doWorkInRange runs in a thread that was started.
WorkInThread ==
    /\ \E t \in 1..Len(threadObjects) :
          /\ ~threadObjects[t].finished
          /\ Cardinality(UnfinishedBefore(t)) <= MaxAhead
          /\ handled' = doWorkInRange(handled, threadObjects[t].first,
                                      threadObjects[t].last)
          /\ threadObjects' = [threadObjects EXCEPT ![t].finished = TRUE]
    /\ UNCHANGED <<parCall, parMain>>
    /\ ParFrame

\* thread.join() returns for the next thread.
JoinThread ==
    /\ parMain.pc = "join"
    /\ parMain.joined < Len(threadObjects)
    /\ threadObjects[parMain.joined + 1].finished
    /\ parMain' = [parMain EXCEPT !.joined = @ + 1]
    /\ UNCHANGED <<parCall, threadObjects, handled>>
    /\ ParFrame

\* Every thread is joined: the function returns.
ReturnFromParallel ==
    /\ parMain.pc = "join"
    /\ parMain.joined = Len(threadObjects)
    /\ parMain' = [parMain EXCEPT !.pc = "returned"]
    /\ UNCHANGED <<parCall, threadObjects, handled>>
    /\ ParFrame

NextPar ==
    \/ WorkSequential
    \/ PrepareThreads
    \/ ReserveThrows
    \/ StartThread
    \/ WorkLastPartition
    \/ WorkInThread
    \/ JoinThread
    \/ ReturnFromParallel

SpecPar == InitPar /\ [][NextPar]_vars

\* C26: no element is passed to the work function twice, and when the call
\* is over every element was passed to it once and the work function has
\* returned in every thread that was started, for every container size and
\* every thread count.
C26_EveryElementExactlyOnce ==
    /\ \A e \in DOMAIN handled : handled[e] <= 1
    /\ parMain.pc \in {"returned", "threw"} =>
          /\ \A e \in DOMAIN handled : handled[e] = 1
          /\ \A t \in 1..Len(threadObjects) : threadObjects[t].finished


(***************************************************************************)
(* actionbuilder.cpp: buildMerkleTree                                      *)
(***************************************************************************)
\* The threads that run the work function (the calling thread is the last),
\* and the dependencies that are followed; the others of the container are
\* files of their own with contents of their own.
NMerkleThreads == 2

MaxMerkleDeps == 3

MerkleThreads == 1..NMerkleThreads

\* The remote working directory.
MerkleCwd == <<"w">>

P_a == <<"a">>

P_b == <<"b">>

P_dda == <<"d", "/", ".", ".", "/", "a">>

P_x == <<"/", "x">>

\* The local paths the dependency scan can name; none of them is rewritten.
DepCandidates == {P_a, P_b, P_dda, P_x}

Digests == {1, 2}

RECC_DEPS_GLOBAL_PATHS == FALSE

RECC_DEPS_EXCLUDE_PATHS == {}

DotDotSegment == <<"/", ".", ".", "/">>

\* std::string::find(str, pos) with 0-based positions; -1 stands for npos.
FindStr0(s, str, pos) ==
    LET hits == {i \in pos..(Len(s) - Len(str)) : Substr(s, i, Len(str)) = str} IN
    IF hits = {} THEN -1 ELSE CHOOSE i \in hits : \A j \in hits : i <= j

\* The directories above a path of the tree.
ParentDirectories(path) ==
    {SubSeq(path, 1, i - 1) : i \in {j \in 2..Len(path) : path[j] = "/"}}

\* NestedDirectory::addDirectory
addDirectory(tree, directory) ==
    [tree EXCEPT !.d_subdirs = @ \cup {directory} \cup ParentDirectories(directory)]

\* NestedDirectory::add
addFile(tree, digest, path) ==
    [tree EXCEPT !.d_files = (path :> digest) @@ @,
                 !.d_subdirs = @ \cup ParentDirectories(path)]

\* (*digest_to_filepaths)[file.d_digest] = dep_paths.first
assignFilepath(map, digest, first) == (digest :> first) @@ map

\* The start of getMerklePath: a relative path is put under the remote cwd.
merklePathStart(path, cwd) ==
    IF path[1] # "/" /\ cwd # <<>> THEN cwd \o <<"/">> \o path ELSE path

\* The end of getMerklePath: the normalized path, empty if it is excluded.
merklePathEnd(merklePath) ==
    LET normalized == normalizePath(merklePath) IN
    IF (normalized[1] = "/" /\ ~RECC_DEPS_GLOBAL_PATHS)
       \/ \E prefix \in RECC_DEPS_EXCLUDE_PATHS : hasPathPrefix(normalized, prefix)
    THEN <<>>
    ELSE normalized

\* The tree after the loop of getMerklePath from position pos on.
RECURSIVE addDotDotDirectories(_, _, _)
addDotDotDirectories(tree, merklePath, pos) ==
    LET dotdot == FindStr0(merklePath, DotDotSegment, pos) IN
    IF dotdot = -1 THEN tree
    ELSE addDotDotDirectories(
             IF dotdot # pos
             THEN addDirectory(tree, normalizePath(Substr(merklePath, 0, dotdot)))
             ELSE tree,
             merklePath, dotdot + 3)

\* addFileToMerkleTreeHelper run without interruption.
addFileToMerkleTreeHelper(built, dep_paths, cwd, digests) ==
    LET start      == merklePathStart(dep_paths.second, cwd)
        withDirs   == addDotDotDirectories(built.tree, start, 0)
        merklePath == merklePathEnd(start)
    IN  IF merklePath = <<>> THEN [built EXCEPT !.tree = withDirs]
        ELSE [tree |-> addFile(withDirs, digests[dep_paths.first], merklePath),
              map  |-> assignFilepath(built.map, digests[dep_paths.first],
                                      dep_paths.first)]

\* The work function applied to the whole container by one thread.
RECURSIVE buildSequentially(_, _, _, _)
buildSequentially(built, deps, cwd, digests) ==
    IF deps = <<>> THEN built
    ELSE buildSequentially(addFileToMerkleTreeHelper(built, Head(deps), cwd, digests),
                           Tail(deps), cwd, digests)

\* The containers: the dependencies followed, in the order of the set.
DependencyLists ==
    {deps \in UNION {[1..k -> DepCandidates] : k \in 0..MaxMerkleDeps} :
        \A i, j \in DOMAIN deps : i # j => deps[i] # deps[j]}

\* The ranges parallelizeContainerOperations hands out: one of k elements to
\* every thread it starts and the rest to the calling thread.
RangeOf(t, k, length) ==
    IF t < NMerkleThreads
    THEN [first |-> (t - 1) * k + 1, last |-> t * k]
    ELSE [first |-> (t - 1) * k + 1, last |-> length]

\* A thread between two dependencies.
ThreadAt(range) ==
    [pc |-> "next", cur |-> range.first, last |-> range.last,
     merklePath |-> <<>>, pos |-> 0, dotdot |-> 0, digest |-> 0]

\* buildMerkleTree has called parallelizeContainerOperations, which started
\* the threads.  Contents are taken up to the names of the digests.
InitMerkle ==
    /\ EarlyIdle
    /\ LateIdleBut("merkle")
    /\ \E deps \in DependencyLists :
          dependency_paths = [i \in DOMAIN deps |-> [first |-> deps[i], second |-> deps[i]]]
    /\ fileDigests \in {f \in [DepCandidates -> Digests] : f[P_a] = 1 /\ f[P_x] = 1}
    /\ nestedDirectory = EmptyNestedDirectory
    /\ digestToFilepaths = <<>>
    /\ ContainerWriteMutex = 0
    /\ \E k \in 0..Len(dependency_paths) :
          /\ (NMerkleThreads - 1) * k <= Len(dependency_paths)
          /\ merkleThreads = [t \in MerkleThreads |->
                                 ThreadAt(RangeOf(t, k, Len(dependency_paths)))]
    /\ merklePc = "building"

MerkleFrame == UNCHANGED earlyVars /\ LateFrameBut("merkle")

MerkleInputs == <<dependency_paths, fileDigests>>

\* A variant of the mutex that every thread can take at any time.
mutexIsFree_always(mutex) == TRUE

\* std::lock_guard<std::mutex> lock(ContainerWriteMutex) returns.
mutexIsFree(mutex) == mutex = 0

\* The loop of the work function: the next pair of the range, or the end.
NextDependency(t) ==
    LET th == merkleThreads[t] IN
    /\ merklePc = "building"
    /\ th.pc = "next"
    /\ IF th.cur > th.last
       THEN merkleThreads' = [merkleThreads EXCEPT ![t].pc = "finished"]
       ELSE merkleThreads' = [merkleThreads EXCEPT
                ![t].pc = "scan",
                ![t].merklePath = merklePathStart(dependency_paths[th.cur].second,
                                                  MerkleCwd),
                ![t].pos = 0]
    /\ UNCHANGED <<MerkleInputs, nestedDirectory, digestToFilepaths,
                   ContainerWriteMutex, merklePc>>
    /\ MerkleFrame

\* getMerklePath: the search for the next "/../"; after the last one the path
\* is normalized, and the file is read unless the path is excluded.
ScanDotDot(t) ==
    LET th     == merkleThreads[t]
        dotdot == FindStr0(th.merklePath, DotDotSegment, th.pos)
        path   == merklePathEnd(th.merklePath)
    IN
    /\ th.pc = "scan"
    /\ IF dotdot # -1
       THEN IF dotdot # th.pos
            THEN merkleThreads' = [merkleThreads EXCEPT ![t].pc = "lockDirectory",
                                                        ![t].dotdot = dotdot]
            ELSE merkleThreads' = [merkleThreads EXCEPT ![t].pos = dotdot + 3]
       ELSE IF path = <<>>
            THEN merkleThreads' = [merkleThreads EXCEPT ![t].pc = "next",
                                                        ![t].cur = @ + 1]
            ELSE merkleThreads' = [merkleThreads EXCEPT
                     ![t].pc = "lockFile",
                     ![t].merklePath = path,
                     ![t].digest = fileDigests[dependency_paths[th.cur].first]]
    /\ UNCHANGED <<MerkleInputs, nestedDirectory, digestToFilepaths,
                   ContainerWriteMutex, merklePc>>
    /\ MerkleFrame

\* getMerklePath: the lock taken for addDirectory.
LockForDirectory(t) ==
    /\ merkleThreads[t].pc = "lockDirectory"
    /\ mutexIsFree(ContainerWriteMutex)
    /\ ContainerWriteMutex' = t
    /\ merkleThreads' = [merkleThreads EXCEPT ![t].pc = "addDirectory"]
    /\ UNCHANGED <<MerkleInputs, nestedDirectory, digestToFilepaths, merklePc>>
    /\ MerkleFrame

\* getMerklePath: nestedDirectory->addDirectory, and the end of the lock's
\* scope.
AddDirectory(t) ==
    LET th == merkleThreads[t] IN
    /\ th.pc = "addDirectory"
    /\ nestedDirectory' = addDirectory(nestedDirectory,
                              normalizePath(Substr(th.merklePath, 0, th.dotdot)))
    /\ ContainerWriteMutex' = IF ContainerWriteMutex = t THEN 0 ELSE ContainerWriteMutex
    /\ merkleThreads' = [merkleThreads EXCEPT ![t].pc = "scan",
                                              ![t].pos = th.dotdot + 3]
    /\ UNCHANGED <<MerkleInputs, digestToFilepaths, merklePc>>
    /\ MerkleFrame

\* addFileToMerkleTreeHelper: the lock taken for the two writes.
LockForFile(t) ==
    /\ merkleThreads[t].pc = "lockFile"
    /\ mutexIsFree(ContainerWriteMutex)
    /\ ContainerWriteMutex' = t
    /\ merkleThreads' = [merkleThreads EXCEPT ![t].pc = "addFile"]
    /\ UNCHANGED <<MerkleInputs, nestedDirectory, digestToFilepaths, merklePc>>
    /\ MerkleFrame

\* addFileToMerkleTreeHelper: nestedDirectory->add(file, merklePath).
AddFile(t) ==
    LET th == merkleThreads[t] IN
    /\ th.pc = "addFile"
    /\ nestedDirectory' = addFile(nestedDirectory, th.digest, th.merklePath)
    /\ merkleThreads' = [merkleThreads EXCEPT ![t].pc = "assignFilepath"]
    /\ UNCHANGED <<MerkleInputs, digestToFilepaths, ContainerWriteMutex, merklePc>>
    /\ MerkleFrame

\* addFileToMerkleTreeHelper: the assignment to the PathMap, and the end of
\* the lock's scope.
AssignFilepath(t) ==
    LET th == merkleThreads[t] IN
    /\ th.pc = "assignFilepath"
    /\ digestToFilepaths' = assignFilepath(digestToFilepaths, th.digest,
                                           dependency_paths[th.cur].first)
    /\ ContainerWriteMutex' = IF ContainerWriteMutex = t THEN 0 ELSE ContainerWriteMutex
    /\ merkleThreads' = [merkleThreads EXCEPT ![t].pc = "next", ![t].cur = @ + 1]
    /\ UNCHANGED <<MerkleInputs, nestedDirectory, merklePc>>
    /\ MerkleFrame

\* Every thread is joined: buildMerkleTree returns.
ReturnMerkleTree ==
    /\ merklePc = "building"
    /\ \A t \in MerkleThreads : merkleThreads[t].pc = "finished"
    /\ merklePc' = "returned"
    /\ UNCHANGED <<MerkleInputs, nestedDirectory, digestToFilepaths,
                   ContainerWriteMutex, merkleThreads>>
    /\ MerkleFrame

NextMerkle ==
    \/ \E t \in MerkleThreads : NextDependency(t)
    \/ \E t \in MerkleThreads : ScanDotDot(t)
    \/ \E t \in MerkleThreads : LockForDirectory(t)
    \/ \E t \in MerkleThreads : AddDirectory(t)
    \/ \E t \in MerkleThreads : LockForFile(t)
    \/ \E t \in MerkleThreads : AddFile(t)
    \/ \E t \in MerkleThreads : AssignFilepath(t)
    \/ ReturnMerkleTree

SpecMerkle == InitMerkle /\ [][NextMerkle]_vars

\* Where a thread is about to write to the tree or to the PathMap.
WritingPcs == {"addDirectory", "addFile", "assignFilepath"}

\* C24: a thread that is about to write to the tree or to the PathMap holds
\* ContainerWriteMutex, so that no two threads are there at once; and the tree
\* and the PathMap change only in a step of the thread that holds the mutex.
C24_WritesUnderContainerMutex ==
    /\ [](\A t \in DOMAIN merkleThreads :
             merkleThreads[t].pc \in WritingPcs => ContainerWriteMutex = t)
    /\ [][(nestedDirectory' # nestedDirectory
           \/ digestToFilepaths' # digestToFilepaths) =>
             /\ ContainerWriteMutex \in DOMAIN merkleThreads
             /\ merkleThreads[ContainerWriteMutex].pc \in WritingPcs
             /\ merkleThreads'[ContainerWriteMutex] # merkleThreads[ContainerWriteMutex]]_vars

\* One thread writes while another waits for the mutex.
C24_Witness ==
    \E t, u \in DOMAIN merkleThreads :
        /\ merkleThreads[t].pc = "assignFilepath"
        /\ ContainerWriteMutex = t
        /\ merkleThreads[u].pc \in {"lockFile", "lockDirectory"}

\* C25: when buildMerkleTree has returned, the tree (and with it the digest of
\* the input root) and the PathMap are those that one thread working through
\* the container in order leaves behind.
C25_SameAsSequential ==
    merklePc = "returned" =>
        LET sequential ==
                buildSequentially([tree |-> EmptyNestedDirectory, map |-> <<>>],
                                  dependency_paths, MerkleCwd, fileDigests)
        IN  /\ nestedDirectory = sequential.tree
            /\ digestToFilepaths = sequential.map


\* The positions of the calls of uploadResources in the record of calls.
UploadCallIndexes == {i \in 1..Len(calls) : calls[i].op = "uploadResources"}

\* C27: in a cache-only local build the action cache is updated only after
\* uploadResources has returned without an exception, every digest that
\* FindMissingBlobs had reported missing having reached the CAS; when
\* uploadResources throws, updateActionCache is not called, no entry is
\* written and the invocation returns the exit code of the build.
C27_CacheUpdateOnlyAfterUpload ==
    Called("execLocallyWithActionResult") =>
        /\ (Called("updateActionCache") \/ acUpdated) =>
              /\ FirstCall("uploadResources") # 0
              /\ FirstCall("uploadResources") < FirstCall("updateActionCache")
              /\ calls[FirstCall("uploadResources")].thrown = "none"
              /\ calls[FirstCall("uploadResources")].missing \subseteq casUploads
        /\ (\E i \in UploadCallIndexes : calls[i].thrown # "none") =>
              /\ ~Called("updateActionCache")
              /\ ~acUpdated
              /\ pc \in {"returned", "exited"}
              /\ thrown = "none"
              /\ retval = actionResult.exit_code

\* A local build succeeded with its product, the upload of its outputs broke
\* off with a GrpcError after some blobs had reached the CAS, and recc exited
\* with the build's exit code without having touched the action cache.
C27_Witness ==
    /\ pc = "exited"
    /\ Called("execLocallyWithActionResult")
    /\ actionResult.output_files # {}
    /\ \E i \in UploadCallIndexes :
          /\ calls[i].thrown = "GrpcError"
          /\ calls[i].uploaded # {}
    /\ ~Called("updateActionCache")
    /\ exitCode = 0

\* C28: when the answer of FindMissingBlobs holds a digest that is in neither
\* the blob map nor the digest-to-path map, uploadResources leaves with a
\* runtime_error and nothing reaches the CAS; neither Execute nor
\* updateActionCache follows.
C28_UnknownMissingDigestUploadsNothing ==
    \A i \in UploadCallIndexes :
        (\E d \in calls[i].missing : d \notin blobs /\ d \notin digest_to_filepaths) =>
            /\ calls[i].thrown = "runtime_error"
            /\ calls[i].uploaded = {}
            /\ casUploads = {}
            /\ ~Called("executeAction")
            /\ ~Called("updateActionCache")

\* FindMissingBlobs named the Action's digest, which recc holds, together
\* with a digest recc never asked about, and uploadBlobs itself would have
\* worked.
C28_Witness ==
    \E i \in UploadCallIndexes :
        /\ BogusDigest \in calls[i].missing
        /\ ActionDigest \in calls[i].missing
        /\ ActionDigest \in blobs
        /\ BogusDigest \notin blobs \cup digest_to_filepaths
        /\ calls[i].thrown = "runtime_error"

=============================================================================
